---- MODULE Spec2Model ----
(***************************************************************************)
(* The vote ingestion, tally and question lifecycle core of PollMetry:     *)
(* the socket handlers of server/routes.ts (src/unnamed/part_006) over the *)
(* storage layer of src/server/storage.ts.                                 *)
(*                                                                         *)
(* Every handler is an async function.  Between two awaits its code runs   *)
(* without interruption; at an await it is suspended until the storage     *)
(* call has run against the database.  A handler is therefore modelled by  *)
(* two kinds of steps that alternate: the storage call executing (one      *)
(* statement against the tables, atomic) and the handler resuming with the *)
(* result and running up to its next await.  Steps of different handlers   *)
(* interleave freely.                                                      *)
(***************************************************************************)
EXTENDS Integers, Sequences, FiniteSets, TLC

VARIABLES
    questions,        \* table questions: id -> row
    voteEvents,       \* table vote_events: the rows in insertion order
    sessions,         \* table sessions: id -> row
    now,              \* the clock read by new Date() / Date.now(), in seconds
    audienceVote,     \* the running socket.on("audience:vote") handlers
    pollsterControl,  \* the running socket.on("pollster:control") handlers
    hardwareVote,     \* the running POST /api/vote/hardware handler
    connections,      \* per socket: the rooms it joined and the closure's lets
    sessionRooms,     \* the Map sessionRooms: session id -> set of socket ids
    pollsterRooms,    \* the Map pollsterRooms: session id -> set of socket ids
    pollsterJoin,     \* the running socket.on("pollster:join") handlers
    audienceJoin,     \* the running socket.on("audience:join") handlers
    surveyCompletions,\* table survey_completions: id -> row
    surveyVote,       \* the running POST .../survey/vote handler
    adminRequest      \* the running DELETE request of a session or question

\* the sockets' state, the survey and the DELETE requests
elsewhere == <<connections, sessionRooms, pollsterRooms,
                   pollsterJoin, audienceJoin, surveyCompletions,
               surveyVote, adminRequest>>

vars == <<questions, voteEvents, sessions, now, audienceVote, pollsterControl,
          hardwareVote, elsewhere>>

----------------------------------------------------------------------------
(* Bounds of the model *)

\* audience:vote handlers that can be in flight at the same time
NumVoteHandlers == 3
\* pollster:control handlers that can be in flight at the same time
NumControlHandlers == 2
\* rows the vote_events table can hold
MaxVotes == 3

VoteHandlerIds == 1..NumVoteHandlers
ControlHandlerIds == 1..NumControlHandlers

----------------------------------------------------------------------------
(* Values *)

\* SQL NULL in a timestamp column
Null == 0

\* the one session of the model and its questions, in their `order`: q2 is a
\* multiple-choice question, the type of q1 is chosen when it is created
QuestionOrder == <<"q1", "q2">>
QuestionIds == {QuestionOrder[i] : i \in 1..Len(QuestionOrder)}
\* an id that names no row of the questions table
UnknownQuestionId == "q0"

QuestionTypes == {"multiple_choice", "slider", "emoji"}

\* a row of the questions table as the schema's defaults make it; a
\* multiple-choice question has two options
NewQuestion(id, type) ==
    [id |-> id, sessionId |-> "s1", type |-> type,
     optionsJson |-> IF type = "multiple_choice" THEN <<"A", "B">> ELSE <<>>,
     state |-> "DRAFT", isRevealed |-> FALSE, isFrozen |-> FALSE,
     openedAt |-> Null, closedAt |-> Null]

\* data.payload of an audience:vote message: any JSON value.  An object is a
\* record of its fields; EmptyObject is {} and NoPayload is a message without
\* the payload field.
EmptyObject == [k \in {} |-> 0]
NoPayload == [undefined |-> TRUE]
Has(payload, field) == field \in DOMAIN payload

\* The segment of socket.handshake.query: any string the client put there
\* ("" when it put none).
SegmentOf(handshakeSegment) ==
    IF handshakeSegment # "" THEN handshakeSegment ELSE "remote"

\* The session, as createSession and the schema's defaults make it.  It was
\* created with mode "survey": the mode is read by survey/start only, every
\* other handler of the model treats the two modes alike.
SessionIds == {"s1"}
SessionCode(sessionId) == IF sessionId = "s1" THEN "CODE1" ELSE "CODE2"
NewSession(id) ==
    [id |-> id, code |-> SessionCode(id), mode |-> "survey", isActive |-> FALSE]

----------------------------------------------------------------------------
(* server/storage.ts: the queries *)

\* code.toUpperCase(), on the codes the model sends
ToUpperCase(code) == IF code = "code1" THEN "CODE1" ELSE code

\* select ... where code = code.toUpperCase(): none or one row
getSessionByCode(stable, code) ==
    IF \E id \in DOMAIN stable : stable[id].code = ToUpperCase(code)
    THEN <<stable[CHOOSE id \in DOMAIN stable : stable[id].code = ToUpperCase(code)]>>
    ELSE <<>>

updateSessionActive(stable, id, isActive) ==
    IF id \notin DOMAIN stable THEN stable
    ELSE [stable EXCEPT ![id].isActive = isActive]

\* the rows of a select ... where id = ...: none or one
getQuestion(qtable, id) ==
    IF id \in DOMAIN qtable THEN <<qtable[id]>> ELSE <<>>

\* select ... where session_id = ... order by "order"
getQuestionsBySession(qtable, sessionId) ==
    LET ids == SelectSeq(QuestionOrder,
                         LAMBDA id : id \in DOMAIN qtable
                                     /\ qtable[id].sessionId = sessionId)
    IN [i \in 1..Len(ids) |-> qtable[ids[i]]]

\* (mutant) the update to CLOSED lifts the freeze
updateQuestionStateUnfreezing(qtable, id, state, clock) ==
    IF id \notin DOMAIN qtable THEN qtable
    ELSE [qtable EXCEPT ![id] =
            CASE state = "LIVE" ->
                   [@ EXCEPT !.state = state, !.openedAt = clock, !.closedAt = Null]
              [] state = "CLOSED" ->
                   [@ EXCEPT !.state = state, !.closedAt = clock, !.isFrozen = FALSE]
              [] state = "DRAFT" ->
                   [@ EXCEPT !.state = state, !.openedAt = Null, !.closedAt = Null]]

\* (mutant) the update to CLOSED sets no closedAt
updateQuestionStateNotStamping(qtable, id, state, clock) ==
    IF id \notin DOMAIN qtable THEN qtable
    ELSE [qtable EXCEPT ![id] =
            CASE state = "LIVE" ->
                   [@ EXCEPT !.state = state, !.openedAt = clock, !.closedAt = Null]
              [] state = "CLOSED" ->
                   [@ EXCEPT !.state = state]
              [] state = "DRAFT" ->
                   [@ EXCEPT !.state = state, !.openedAt = Null, !.closedAt = Null]]

\* (mutant) the update to LIVE leaves closedAt as it was
updateQuestionStateKeepingClosedAt(qtable, id, state, clock) ==
    IF id \notin DOMAIN qtable THEN qtable
    ELSE [qtable EXCEPT ![id] =
            CASE state = "LIVE" ->
                   [@ EXCEPT !.state = state, !.openedAt = clock]
              [] state = "CLOSED" ->
                   [@ EXCEPT !.state = state, !.closedAt = clock]
              [] state = "DRAFT" ->
                   [@ EXCEPT !.state = state, !.openedAt = Null, !.closedAt = Null]]

\* update ... set ... where id = ...: the table afterwards
updateQuestionState(qtable, id, state, clock) ==
    IF id \notin DOMAIN qtable THEN qtable
    ELSE [qtable EXCEPT ![id] =
            CASE state = "LIVE" ->
                   [@ EXCEPT !.state = state, !.openedAt = clock, !.closedAt = Null]
              [] state = "CLOSED" ->
                   [@ EXCEPT !.state = state, !.closedAt = clock]
              [] state = "DRAFT" ->
                   [@ EXCEPT !.state = state, !.openedAt = Null, !.closedAt = Null]]

updateQuestionRevealed(qtable, id, isRevealed) ==
    IF id \notin DOMAIN qtable THEN qtable
    ELSE [qtable EXCEPT ![id].isRevealed = isRevealed]

updateQuestionFrozen(qtable, id, isFrozen) ==
    IF id \notin DOMAIN qtable THEN qtable
    ELSE [qtable EXCEPT ![id].isFrozen = isFrozen]

\* (mutant) the delete leaves the votes of the question in place
resetDeleteNothing(events, id) == events

\* (mutant) the delete of resetQuestionVotes without its where clause
resetDeleteEveryVote(events, id) == <<>>

\* resetQuestionVotes is two statements, run one after the other
resetDeleteVotes(events, id) ==
    SelectSeq(events, LAMBDA v : v.questionId # id)

resetUpdateQuestion(qtable, id) ==
    IF id \notin DOMAIN qtable THEN qtable
    ELSE [qtable EXCEPT ![id] =
            [@ EXCEPT !.state = "DRAFT", !.isRevealed = FALSE, !.isFrozen = FALSE,
                      !.openedAt = Null, !.closedAt = Null]]

CountWhere(rows, Test(_)) ==
    Cardinality({i \in 1..Len(rows) : Test(rows[i])})

\* (mutant) the count looks for the voter under another question id
hasVotedElsewhere(events, questionId, voterTokenHash) ==
    CountWhere(events, LAMBDA v : v.questionId # questionId
                                  /\ v.voterTokenHash = voterTokenHash) > 0

hasVoted(events, questionId, voterTokenHash) ==
    CountWhere(events, LAMBDA v : v.questionId = questionId
                                  /\ v.voterTokenHash = voterTokenHash) > 0

\* The insert of createVoteEvent.  payload_json is NOT NULL: the insert of a
\* vote without payload is refused by the database and the call rejects.
InsertRefused(insertVote) == insertVote.payloadJson = NoPayload

\* (mutant) the insert stores nothing
createVoteEventDropped(events, insertVote, clock) == events

createVoteEvent(events, insertVote, clock) ==
    Append(events, [sessionId |-> insertVote.sessionId,
                    questionId |-> insertVote.questionId,
                    voterTokenHash |-> insertVote.voterTokenHash,
                    segment |-> insertVote.segment,
                    payloadJson |-> insertVote.payloadJson,
                    createdAt |-> clock])

WindowSeconds == 10

\* count(created_at > cutoff) / windowSeconds, as a fraction
\* (mutant) the cutoff itself is inside the window
getVotesPerSecondInclusive(events, questionId, windowSeconds, clock) ==
    [num |-> CountWhere(events, LAMBDA v : /\ v.questionId = questionId
                                           /\ v.createdAt >= clock - windowSeconds),
     den |-> windowSeconds]

getVotesPerSecond(events, questionId, windowSeconds, clock) ==
    [num |-> CountWhere(events, LAMBDA v : v.questionId = questionId
                                           /\ v.createdAt > clock - windowSeconds),
     den |-> windowSeconds]

\* which branch of the loop body of getVoteTally a vote takes
CountsAsOption(type, payload) ==
    \/ type = "multiple_choice" /\ Has(payload, "optionId")
    \/ type = "emoji" /\ Has(payload, "emoji") /\ payload.emoji # ""

CountsAsSlider(type, payload) ==
    type = "slider" /\ Has(payload, "value")

\* (mutant) the key of an option is its index counted from one
OptionKeyFromOne(type, payload) ==
    IF type = "multiple_choice" THEN ToString(payload.optionId + 1) ELSE payload.emoji

OptionKey(type, payload) ==
    IF type = "multiple_choice" THEN ToString(payload.optionId) ELSE payload.emoji

RECURSIVE SumValues(_)
SumValues(rows) ==
    IF rows = <<>> THEN 0
    ELSE rows[1].payloadJson.value + SumValues(Tail(rows))

\* getVoteTally reads bySegmentAndOption[segment][key]: for a segment other
\* than room and remote bySegmentAndOption[segment] is undefined and the read
\* throws a TypeError.
TallyThrows(qtable, events, questionId) ==
    /\ questionId \in DOMAIN qtable
    /\ \E i \in 1..Len(events) :
          /\ events[i].questionId = questionId
          /\ events[i].segment \notin {"room", "remote"}
          /\ CountsAsOption(qtable[questionId].type, events[i].payloadJson)

\* (mutant) total is the count of the votes of the trailing window
getVoteTallyOfWindow(qtable, events, questionId, clock) ==
    [total |-> getVotesPerSecond(events, questionId, WindowSeconds, clock).num,
     bySegment |-> [room |-> 0, remote |-> 0],
     votesPerSecond |-> getVotesPerSecond(events, questionId, WindowSeconds, clock)]

getVoteTally(qtable, events, questionId, clock) ==
    IF questionId \notin DOMAIN qtable
    THEN [total |-> 0, bySegment |-> [room |-> 0, remote |-> 0]]
    ELSE
      LET type == qtable[questionId].type
          votes == SelectSeq(events, LAMBDA v : v.questionId = questionId)
          segments == {"room", "remote"} \cup {votes[i].segment : i \in 1..Len(votes)}
          counted == SelectSeq(votes, LAMBDA v : CountsAsOption(type, v.payloadJson))
          keys == {OptionKey(type, counted[i].payloadJson) : i \in 1..Len(counted)}
          slid == SelectSeq(votes, LAMBDA v : CountsAsSlider(type, v.payloadJson))
          base ==
            [total |-> Len(votes),
             \* bySegment[segment]++ on an absent key leaves NaN
             bySegment |->
               [s \in segments |->
                  IF s \in {"room", "remote"}
                  THEN CountWhere(votes, LAMBDA v : v.segment = s)
                  ELSE "NaN"],
             byOption |->
               [k \in keys |->
                  CountWhere(counted, LAMBDA v : OptionKey(type, v.payloadJson) = k)],
             bySegmentAndOption |->
               [s \in {"room", "remote"} |->
                  LET of == SelectSeq(counted, LAMBDA v : v.segment = s)
                  IN [k \in {OptionKey(type, of[i].payloadJson) : i \in 1..Len(of)} |->
                        CountWhere(of, LAMBDA v : OptionKey(type, v.payloadJson) = k)]],
             votesPerSecond |->
               getVotesPerSecond(events, questionId, WindowSeconds, clock)]
      IN IF slid = <<>> THEN base
         ELSE base @@ [sliderTotal |-> SumValues(slid),
                       average |-> [num |-> SumValues(slid), den |-> Len(votes)]]

----------------------------------------------------------------------------
(* What a handler sends *)

ToSocket == "socket"
\* (mutant) one room for every session
SessionRoomShared(sessionId) == <<"session", "s1">>

\* the room `session:${sessionId}`
SessionRoom(sessionId) == <<"session", sessionId>>

Emit(target, event, payload) == [to |-> target, event |-> event, payload |-> payload]

ErrorEvent(message) == Emit(ToSocket, "error", [message |-> message])
CannotVote == ErrorEvent("Cannot vote on this question")
AlreadyVoted == ErrorEvent("Already voted")
VoteConfirmed == Emit(ToSocket, "vote:confirmed", EmptyObject)
SessionResults(sessionId, questionId, tally) ==
    Emit(SessionRoom(sessionId), "session:results",
         [questionId |-> questionId, tally |-> tally])

----------------------------------------------------------------------------
(* socket.on("audience:vote") *)

IdleVote ==
    [pc |-> "idle", data |-> EmptyObject, segment |-> "", question |-> <<>>,
     hasVoted |-> FALSE, tally |-> EmptyObject, emitted |-> <<>>,
     before |-> EmptyObject]

\* votes that have been received and may still insert a row
VotesPending ==
    Cardinality({h \in VoteHandlerIds :
        audienceVote[h].pc \in {"getQuestion", "gotQuestion", "hasVoted",
                                "gotHasVoted", "createVoteEvent"}})

\* The message arrives and the handler calls storage.getQuestion.  `before`
\* keeps the tables as they were on arrival.
AudienceVote(h, questionId, payload, voterToken, handshakeSegment) ==
    /\ audienceVote[h].pc = "idle"
    /\ Len(voteEvents) + VotesPending < MaxVotes
    /\ audienceVote' = [audienceVote EXCEPT ![h] =
          [IdleVote EXCEPT
             !.pc = "getQuestion",
             !.data = [questionId |-> questionId, payload |-> payload,
                       voterToken |-> voterToken],
             !.segment = handshakeSegment,
             !.before = [questions |-> questions, voteEvents |-> voteEvents]]]
    /\ UNCHANGED <<questions, voteEvents, sessions, now, pollsterControl, hardwareVote, elsewhere>>

VoteGetQuestion(h) ==
    /\ audienceVote[h].pc = "getQuestion"
    /\ audienceVote' = [audienceVote EXCEPT
          ![h].question = getQuestion(questions, audienceVote[h].data.questionId),
          ![h].pc = "gotQuestion"]
    /\ UNCHANGED <<questions, voteEvents, sessions, now, pollsterControl, hardwareVote, elsewhere>>

\* (mutant) the check forgets the state
VotableAnyState(question) ==
    /\ question # <<>>
    /\ ~question[1].isFrozen

\* (mutant) the check forgets isFrozen
VotableFrozen(question) ==
    /\ question # <<>>
    /\ question[1].state = "LIVE"

Votable(question) ==
    /\ question # <<>>
    /\ question[1].state = "LIVE"
    /\ ~question[1].isFrozen

VoteCheckVotable(h) ==
    /\ audienceVote[h].pc = "gotQuestion"
    /\ audienceVote' = [audienceVote EXCEPT ![h] =
          IF Votable(@.question)
          THEN [@ EXCEPT !.pc = "hasVoted"]
          ELSE [@ EXCEPT !.pc = "done", !.emitted = Append(@, CannotVote)]]
    /\ UNCHANGED <<questions, voteEvents, sessions, now, pollsterControl, hardwareVote, elsewhere>>

VoteHasVoted(h) ==
    /\ audienceVote[h].pc = "hasVoted"
    /\ audienceVote' = [audienceVote EXCEPT
          ![h].hasVoted = hasVoted(voteEvents, audienceVote[h].data.questionId,
                                   audienceVote[h].data.voterToken),
          ![h].pc = "gotHasVoted"]
    /\ UNCHANGED <<questions, voteEvents, sessions, now, pollsterControl, hardwareVote, elsewhere>>

\* (mutant) emoji questions are let through, as the earlier routes did
DuplicateExceptEmoji(handler) ==
    handler.question[1].type # "emoji" /\ handler.hasVoted

\* if (hasVoted)
Duplicate(handler) == handler.hasVoted

VoteCheckDuplicate(h) ==
    /\ audienceVote[h].pc = "gotHasVoted"
    /\ audienceVote' = [audienceVote EXCEPT ![h] =
          IF Duplicate(@)
          THEN [@ EXCEPT !.pc = "done", !.emitted = Append(@, AlreadyVoted)]
          ELSE [@ EXCEPT !.pc = "createVoteEvent"]]
    /\ UNCHANGED <<questions, voteEvents, sessions, now, pollsterControl, hardwareVote, elsewhere>>

InsertVoteOf(handler) ==
    [sessionId |-> handler.question[1].sessionId,
     questionId |-> handler.data.questionId,
     voterTokenHash |-> handler.data.voterToken,
     segment |-> SegmentOf(handler.segment),
     payloadJson |-> handler.data.payload]

\* The insert runs, or the database refuses it: then the await throws, nothing
\* in the handler catches it and the handler ends there.
VoteCreateVoteEvent(h) ==
    /\ audienceVote[h].pc = "createVoteEvent"
    /\ IF InsertRefused(InsertVoteOf(audienceVote[h]))
       THEN /\ audienceVote' = [audienceVote EXCEPT ![h].pc = "threw"]
            /\ UNCHANGED voteEvents
       ELSE /\ voteEvents' = createVoteEvent(voteEvents, InsertVoteOf(audienceVote[h]), now)
            /\ audienceVote' = [audienceVote EXCEPT ![h].pc = "createdVoteEvent"]
    /\ UNCHANGED <<questions, sessions, now, pollsterControl, hardwareVote, elsewhere>>

VoteConfirm(h) ==
    /\ audienceVote[h].pc = "createdVoteEvent"
    /\ audienceVote' = [audienceVote EXCEPT
          ![h].emitted = Append(@, VoteConfirmed),
          ![h].pc = "getVoteTally"]
    /\ UNCHANGED <<questions, voteEvents, sessions, now, pollsterControl, hardwareVote, elsewhere>>

VoteGetVoteTally(h) ==
    /\ audienceVote[h].pc = "getVoteTally"
    /\ IF TallyThrows(questions, voteEvents, audienceVote[h].data.questionId)
       THEN audienceVote' = [audienceVote EXCEPT ![h].pc = "threw"]
       ELSE audienceVote' = [audienceVote EXCEPT
               ![h].tally = getVoteTally(questions, voteEvents,
                                         audienceVote[h].data.questionId, now),
               ![h].pc = "gotVoteTally"]
    /\ UNCHANGED <<questions, voteEvents, sessions, now, pollsterControl, hardwareVote, elsewhere>>

VoteBroadcastResults(h) ==
    /\ audienceVote[h].pc = "gotVoteTally"
    /\ audienceVote' = [audienceVote EXCEPT
          ![h].emitted = Append(@, SessionResults(audienceVote[h].question[1].sessionId,
                                                  audienceVote[h].data.questionId,
                                                  audienceVote[h].tally)),
          ![h].pc = "done"]
    /\ UNCHANGED <<questions, voteEvents, sessions, now, pollsterControl, hardwareVote, elsewhere>>

\* the handler has returned (or thrown): its closure is dropped
VoteReturn(h) ==
    /\ audienceVote[h].pc \in {"done", "threw"}
    /\ audienceVote' = [audienceVote EXCEPT ![h] = IdleVote]
    /\ UNCHANGED <<questions, voteEvents, sessions, now, pollsterControl, hardwareVote, elsewhere>>

VoteStep(h) ==
    \/ VoteGetQuestion(h)
    \/ VoteCheckVotable(h)
    \/ VoteHasVoted(h)
    \/ VoteCheckDuplicate(h)
    \/ VoteCreateVoteEvent(h)
    \/ VoteConfirm(h)
    \/ VoteGetVoteTally(h)
    \/ VoteBroadcastResults(h)

----------------------------------------------------------------------------
(* socket.on("pollster:control") *)

NullPayload == [null |-> TRUE]

CurrentQuestion(sessionId, payload) ==
    Emit(SessionRoom(sessionId), "session:current_question", payload)

QuestionState(sessionId, questionId, row) ==
    Emit(SessionRoom(sessionId), "session:question_state",
         [questionId |-> questionId, state |-> row.state,
          isRevealed |-> row.isRevealed, isFrozen |-> row.isFrozen])

IdleControl ==
    [pc |-> "idle", data |-> EmptyObject, question |-> <<>>,
     updatedQuestion |-> <<>>, list |-> <<>>, closing |-> "",
     tally |-> EmptyObject, emitted |-> <<>>, before |-> EmptyObject]

Actions == {"go_live", "close", "reveal", "hide", "freeze", "unfreeze", "reset"}

\* The message arrives and the handler calls storage.getQuestion.
PollsterControl(c, action, questionId) ==
    /\ pollsterControl[c].pc = "idle"
    /\ pollsterControl' = [pollsterControl EXCEPT ![c] =
          [IdleControl EXCEPT
             !.pc = "getQuestion",
             !.data = [action |-> action, questionId |-> questionId],
             !.before = [questions |-> questions, voteEvents |-> voteEvents]]]
    /\ UNCHANGED <<questions, voteEvents, sessions, now, audienceVote, hardwareVote, elsewhere>>

ControlGetQuestion(c) ==
    /\ pollsterControl[c].pc = "getQuestion"
    /\ pollsterControl' = [pollsterControl EXCEPT
          ![c].question = getQuestion(questions, pollsterControl[c].data.questionId),
          ![c].updatedQuestion = getQuestion(questions, pollsterControl[c].data.questionId),
          ![c].pc = "gotQuestion"]
    /\ UNCHANGED <<questions, voteEvents, sessions, now, audienceVote, hardwareVote, elsewhere>>

\* Lines 1007-1020, after the switch: the question_state event, and for a
\* question that is LIVE the call of getVoteTally for the results event.
\* updatedQuestion undefined (the row was gone when the update ran) makes the
\* read of updatedQuestion.state throw.
AfterSwitch(handler, sent) ==
    IF handler.updatedQuestion = <<>>
    THEN [handler EXCEPT !.pc = "threw", !.emitted = @ \o sent]
    ELSE [handler EXCEPT
            !.emitted = @ \o sent \o
                <<QuestionState(handler.question[1].sessionId, handler.data.questionId,
                                handler.updatedQuestion[1])>>,
            !.pc = IF handler.updatedQuestion[1].state = "LIVE"
                   THEN "resultsTally" ELSE "done"]

\* (mutant) the switch has a default label on the close case
FirstAwaitDefaultClose(action) ==
    CASE action = "go_live" -> "listQuestions"
      [] action \in {"reveal", "hide"} -> "revealed"
      [] action \in {"freeze", "unfreeze"} -> "frozen"
      [] action = "reset" -> "resetDelete"
      [] OTHER -> "close"

\* switch (data.action): the storage call the case taken starts with; no
\* case matches another action name and the switch has no default
FirstAwait(action) ==
    CASE action = "go_live" -> "listQuestions"
      [] action = "close" -> "close"
      [] action \in {"reveal", "hide"} -> "revealed"
      [] action \in {"freeze", "unfreeze"} -> "frozen"
      [] action = "reset" -> "resetDelete"
      [] OTHER -> "none"

\* `if (!question) return` and the switch: the first await of the case taken.
\* An action that is no case of the switch goes straight to the code after it.
ControlSwitch(c) ==
    /\ pollsterControl[c].pc = "gotQuestion"
    /\ pollsterControl' = [pollsterControl EXCEPT ![c] =
          IF pollsterControl[c].question = <<>>
          THEN [pollsterControl[c] EXCEPT !.pc = "done"]
          ELSE IF FirstAwait(pollsterControl[c].data.action) = "none"
          THEN AfterSwitch(pollsterControl[c], <<>>)
          ELSE [pollsterControl[c] EXCEPT
                  !.pc = FirstAwait(pollsterControl[c].data.action)]]
    /\ UNCHANGED <<questions, voteEvents, sessions, now, audienceVote, hardwareVote, elsewhere>>

(* case "go_live" *)

GoLiveListQuestions(c) ==
    /\ pollsterControl[c].pc = "listQuestions"
    /\ pollsterControl' = [pollsterControl EXCEPT
          ![c].list = getQuestionsBySession(questions,
                                            pollsterControl[c].question[1].sessionId),
          ![c].pc = "loop"]
    /\ UNCHANGED <<questions, voteEvents, sessions, now, audienceVote, hardwareVote, elsewhere>>

\* (mutant) the loop closes nothing
ToCloseNothing(handler) == <<>>

\* the rows of the list still to visit that the loop closes: LIVE in the list
\* as it was read, and not the target
ToClose(handler) ==
    SelectSeq(handler.list,
              LAMBDA q : q.state = "LIVE" /\ q.id # handler.question[1].id)

\* The for loop up to its next await: the close of the next LIVE row, or after
\* the last one the update of the target.
GoLiveLoop(c) ==
    /\ pollsterControl[c].pc = "loop"
    /\ pollsterControl' = [pollsterControl EXCEPT ![c] =
          IF ToClose(pollsterControl[c]) # <<>>
          THEN [@ EXCEPT !.closing = ToClose(pollsterControl[c])[1].id,
                         !.pc = "closeOther"]
          ELSE [@ EXCEPT !.list = <<>>, !.pc = "goLive"]]
    /\ UNCHANGED <<questions, voteEvents, sessions, now, audienceVote, hardwareVote, elsewhere>>

RestAfter(list, id) ==
    LET at == CHOOSE i \in 1..Len(list) : list[i].id = id
    IN SubSeq(list, at + 1, Len(list))

GoLiveCloseOther(c) ==
    /\ pollsterControl[c].pc = "closeOther"
    /\ questions' = updateQuestionState(questions, pollsterControl[c].closing,
                                        "CLOSED", now)
    /\ pollsterControl' = [pollsterControl EXCEPT
          ![c].list = RestAfter(@, pollsterControl[c].closing),
          ![c].pc = "loop"]
    /\ UNCHANGED <<voteEvents, sessions, now, audienceVote, hardwareVote, elsewhere>>

\* updateQuestionState(data.questionId, "LIVE"), then the call of getVoteTally
GoLiveUpdate(c) ==
    /\ pollsterControl[c].pc = "goLive"
    /\ questions' = updateQuestionState(questions, pollsterControl[c].data.questionId,
                                        "LIVE", now)
    /\ pollsterControl' = [pollsterControl EXCEPT
          ![c].updatedQuestion = getQuestion(questions',
                                             pollsterControl[c].data.questionId),
          ![c].pc = "goLiveTally"]
    /\ UNCHANGED <<voteEvents, sessions, now, audienceVote, hardwareVote, elsewhere>>

GoLiveGetVoteTally(c) ==
    /\ pollsterControl[c].pc = "goLiveTally"
    /\ IF TallyThrows(questions, voteEvents, pollsterControl[c].data.questionId)
       THEN pollsterControl' = [pollsterControl EXCEPT ![c].pc = "threw"]
       ELSE pollsterControl' = [pollsterControl EXCEPT
               ![c].tally = getVoteTally(questions, voteEvents,
                                         pollsterControl[c].data.questionId, now),
               ![c].pc = "goLiveEmit"]
    /\ UNCHANGED <<questions, voteEvents, sessions, now, audienceVote, hardwareVote, elsewhere>>

\* { ...updatedQuestion, tally }
WithTally(rows, tally) ==
    IF rows = <<>> THEN [tally |-> tally] ELSE rows[1] @@ [tally |-> tally]

GoLiveEmit(c) ==
    /\ pollsterControl[c].pc = "goLiveEmit"
    /\ pollsterControl' = [pollsterControl EXCEPT ![c] =
          AfterSwitch(@, <<CurrentQuestion(@.question[1].sessionId,
                                           WithTally(@.updatedQuestion, @.tally))>>)]
    /\ UNCHANGED <<questions, voteEvents, sessions, now, audienceVote, hardwareVote, elsewhere>>

(* case "close" *)

CloseUpdate(c) ==
    /\ pollsterControl[c].pc = "close"
    /\ questions' = updateQuestionState(questions, pollsterControl[c].data.questionId,
                                        "CLOSED", now)
    /\ pollsterControl' = [pollsterControl EXCEPT
          ![c].updatedQuestion = getQuestion(questions',
                                             pollsterControl[c].data.questionId),
          ![c].pc = "closeEmit"]
    /\ UNCHANGED <<voteEvents, sessions, now, audienceVote, hardwareVote, elsewhere>>

CloseEmit(c) ==
    /\ pollsterControl[c].pc = "closeEmit"
    /\ pollsterControl' = [pollsterControl EXCEPT ![c] =
          AfterSwitch(@, <<CurrentQuestion(@.question[1].sessionId, NullPayload)>>)]
    /\ UNCHANGED <<questions, voteEvents, sessions, now, audienceVote, hardwareVote, elsewhere>>

(* case "reveal", case "hide" *)

RevealUpdate(c) ==
    /\ pollsterControl[c].pc = "revealed"
    /\ questions' = updateQuestionRevealed(questions, pollsterControl[c].data.questionId,
                                           pollsterControl[c].data.action = "reveal")
    /\ pollsterControl' = [pollsterControl EXCEPT
          ![c].updatedQuestion = getQuestion(questions',
                                             pollsterControl[c].data.questionId),
          ![c].pc = "revealedCheck"]
    /\ UNCHANGED <<voteEvents, sessions, now, audienceVote, hardwareVote, elsewhere>>

\* the if of the case: for reveal it awaits getVoteTally, for hide it emits
RevealCheck(c) ==
    /\ pollsterControl[c].pc = "revealedCheck"
    /\ pollsterControl' = [pollsterControl EXCEPT ![c] =
          IF @.updatedQuestion = <<>> THEN [@ EXCEPT !.pc = "threw"]
          ELSE IF @.updatedQuestion[1].state \in {"CLOSED", "DRAFT"}
          THEN IF @.data.action = "reveal"
               THEN [@ EXCEPT !.pc = "revealTally"]
               ELSE AfterSwitch(@, <<CurrentQuestion(@.question[1].sessionId,
                                                     NullPayload)>>)
          ELSE AfterSwitch(@, <<>>)]
    /\ UNCHANGED <<questions, voteEvents, sessions, now, audienceVote, hardwareVote, elsewhere>>

RevealGetVoteTally(c) ==
    /\ pollsterControl[c].pc = "revealTally"
    /\ IF TallyThrows(questions, voteEvents, pollsterControl[c].data.questionId)
       THEN pollsterControl' = [pollsterControl EXCEPT ![c].pc = "threw"]
       ELSE pollsterControl' = [pollsterControl EXCEPT
               ![c].tally = getVoteTally(questions, voteEvents,
                                         pollsterControl[c].data.questionId, now),
               ![c].pc = "revealEmit"]
    /\ UNCHANGED <<questions, voteEvents, sessions, now, audienceVote, hardwareVote, elsewhere>>

RevealEmit(c) ==
    /\ pollsterControl[c].pc = "revealEmit"
    /\ pollsterControl' = [pollsterControl EXCEPT ![c] =
          AfterSwitch(@, <<CurrentQuestion(@.question[1].sessionId,
                                           WithTally(@.updatedQuestion, @.tally))>>)]
    /\ UNCHANGED <<questions, voteEvents, sessions, now, audienceVote, hardwareVote, elsewhere>>

(* case "freeze", case "unfreeze" *)

FreezeUpdate(c) ==
    /\ pollsterControl[c].pc = "frozen"
    /\ questions' = updateQuestionFrozen(questions, pollsterControl[c].data.questionId,
                                         pollsterControl[c].data.action = "freeze")
    /\ pollsterControl' = [pollsterControl EXCEPT
          ![c].updatedQuestion = getQuestion(questions',
                                             pollsterControl[c].data.questionId),
          ![c].pc = "break"]
    /\ UNCHANGED <<voteEvents, sessions, now, audienceVote, hardwareVote, elsewhere>>

(* case "reset" *)

ResetDeleteVotes(c) ==
    /\ pollsterControl[c].pc = "resetDelete"
    /\ voteEvents' = resetDeleteVotes(voteEvents, pollsterControl[c].data.questionId)
    /\ pollsterControl' = [pollsterControl EXCEPT ![c].pc = "resetUpdate"]
    /\ UNCHANGED <<questions, sessions, now, audienceVote, hardwareVote, elsewhere>>

ResetUpdateQuestion(c) ==
    /\ pollsterControl[c].pc = "resetUpdate"
    /\ questions' = resetUpdateQuestion(questions, pollsterControl[c].data.questionId)
    /\ pollsterControl' = [pollsterControl EXCEPT ![c].pc = "resetGetQuestion"]
    /\ UNCHANGED <<voteEvents, sessions, now, audienceVote, hardwareVote, elsewhere>>

ResetGetQuestion(c) ==
    /\ pollsterControl[c].pc = "resetGetQuestion"
    /\ pollsterControl' = [pollsterControl EXCEPT
          ![c].updatedQuestion = getQuestion(questions,
                                             pollsterControl[c].data.questionId),
          ![c].pc = "break"]
    /\ UNCHANGED <<questions, voteEvents, sessions, now, audienceVote, hardwareVote, elsewhere>>

(* after the switch *)

\* cases that end with nothing left to emit of their own
ControlBreak(c) ==
    /\ pollsterControl[c].pc = "break"
    /\ pollsterControl' = [pollsterControl EXCEPT ![c] = AfterSwitch(@, <<>>)]
    /\ UNCHANGED <<questions, voteEvents, sessions, now, audienceVote, hardwareVote, elsewhere>>

ResultsGetVoteTally(c) ==
    /\ pollsterControl[c].pc = "resultsTally"
    /\ IF TallyThrows(questions, voteEvents, pollsterControl[c].data.questionId)
       THEN pollsterControl' = [pollsterControl EXCEPT ![c].pc = "threw"]
       ELSE pollsterControl' = [pollsterControl EXCEPT
               ![c].tally = getVoteTally(questions, voteEvents,
                                         pollsterControl[c].data.questionId, now),
               ![c].pc = "resultsEmit"]
    /\ UNCHANGED <<questions, voteEvents, sessions, now, audienceVote, hardwareVote, elsewhere>>

ResultsEmit(c) ==
    /\ pollsterControl[c].pc = "resultsEmit"
    /\ pollsterControl' = [pollsterControl EXCEPT
          ![c].emitted = Append(@, SessionResults(pollsterControl[c].question[1].sessionId,
                                                  pollsterControl[c].data.questionId,
                                                  pollsterControl[c].tally)),
          ![c].pc = "done"]
    /\ UNCHANGED <<questions, voteEvents, sessions, now, audienceVote, hardwareVote, elsewhere>>

\* the handler has returned (or thrown): its closure is dropped
ControlReturn(c) ==
    /\ pollsterControl[c].pc \in {"done", "threw"}
    /\ pollsterControl' = [pollsterControl EXCEPT ![c] = IdleControl]
    /\ UNCHANGED <<questions, voteEvents, sessions, now, audienceVote, hardwareVote, elsewhere>>

ControlStep(c) ==
    \/ ControlGetQuestion(c)
    \/ ControlSwitch(c)
    \/ GoLiveListQuestions(c)
    \/ GoLiveLoop(c)
    \/ GoLiveCloseOther(c)
    \/ GoLiveUpdate(c)
    \/ GoLiveGetVoteTally(c)
    \/ GoLiveEmit(c)
    \/ CloseUpdate(c)
    \/ CloseEmit(c)
    \/ RevealUpdate(c)
    \/ RevealCheck(c)
    \/ RevealGetVoteTally(c)
    \/ RevealEmit(c)
    \/ FreezeUpdate(c)
    \/ ResetDeleteVotes(c)
    \/ ResetUpdateQuestion(c)
    \/ ResetGetQuestion(c)
    \/ ControlBreak(c)
    \/ ResultsGetVoteTally(c)
    \/ ResultsEmit(c)
    \/ ControlReturn(c)

----------------------------------------------------------------------------
(* POST /api/vote/hardware *)

Response(status, error) == [status |-> status, error |-> error]

IdleHardware ==
    [pc |-> "idle", body |-> EmptyObject, session |-> <<>>, liveQuestion |-> <<>>,
     hasVoted |-> FALSE, response |-> EmptyObject, emitted |-> <<>>,
     before |-> EmptyObject]

\* createHash("sha256").update(`hardware-${deviceId}`).digest("hex")
HardwareTokenHash(deviceId) == "sha256(hardware-" \o deviceId \o ")"

\* The request arrives: the check of the required fields, then the call of
\* getSessionByCode.
HardwareVote(body) ==
    /\ hardwareVote.pc = "idle"
    /\ hardwareVote' =
          IF ~Has(body, "sessionCode") \/ ~Has(body, "deviceId")
             \/ ~Has(body, "optionIndex")
          THEN [IdleHardware EXCEPT
                  !.pc = "done", !.body = body,
                  !.response = Response(400, "Missing required fields"),
                  !.before = [questions |-> questions, voteEvents |-> voteEvents,
                              sessions |-> sessions]]
          ELSE [IdleHardware EXCEPT
                  !.pc = "getSessionByCode", !.body = body,
                  !.before = [questions |-> questions, voteEvents |-> voteEvents,
                              sessions |-> sessions]]
    /\ UNCHANGED <<questions, voteEvents, sessions, now, audienceVote, pollsterControl, elsewhere>>

HardwareGetSessionByCode ==
    /\ hardwareVote.pc = "getSessionByCode"
    /\ hardwareVote' = [hardwareVote EXCEPT
          !.session = getSessionByCode(sessions, hardwareVote.body.sessionCode),
          !.pc = "gotSession"]
    /\ UNCHANGED <<questions, voteEvents, sessions, now, audienceVote, pollsterControl, elsewhere>>

HardwareCheckSession ==
    /\ hardwareVote.pc = "gotSession"
    /\ hardwareVote' =
          IF hardwareVote.session = <<>>
          THEN [hardwareVote EXCEPT
                  !.pc = "done", !.response = Response(404, "Session not found")]
          ELSE IF ~hardwareVote.session[1].isActive
          THEN [hardwareVote EXCEPT
                  !.pc = "done", !.response = Response(400, "Session is not active")]
          ELSE [hardwareVote EXCEPT !.pc = "getQuestionsBySession"]
    /\ UNCHANGED <<questions, voteEvents, sessions, now, audienceVote, pollsterControl, elsewhere>>

\* questions.find(q => q.state === "LIVE"): the first LIVE row of the list
FindLive(list) ==
    LET live == SelectSeq(list, LAMBDA q : q.state = "LIVE")
    IN IF live = <<>> THEN <<>> ELSE <<live[1]>>

HardwareGetQuestions ==
    /\ hardwareVote.pc = "getQuestionsBySession"
    /\ hardwareVote' = [hardwareVote EXCEPT
          !.liveQuestion =
              FindLive(getQuestionsBySession(questions, hardwareVote.session[1].id)),
          !.pc = "gotQuestions"]
    /\ UNCHANGED <<questions, voteEvents, sessions, now, audienceVote, pollsterControl, elsewhere>>

\* if (liveQuestion.isFrozen)
HardwareFrozen(liveQuestion) == liveQuestion[1].isFrozen

HardwareCheckLive ==
    /\ hardwareVote.pc = "gotQuestions"
    /\ hardwareVote' =
          IF hardwareVote.liveQuestion = <<>>
          THEN [hardwareVote EXCEPT
                  !.pc = "done",
                  !.response = Response(400, "No question is currently live")]
          ELSE IF HardwareFrozen(hardwareVote.liveQuestion)
          THEN [hardwareVote EXCEPT
                  !.pc = "done",
                  !.response = Response(400, "Voting is frozen for this question")]
          ELSE [hardwareVote EXCEPT !.pc = "hasVoted"]
    /\ UNCHANGED <<questions, voteEvents, sessions, now, audienceVote, pollsterControl, elsewhere>>

HardwareHasVoted ==
    /\ hardwareVote.pc = "hasVoted"
    /\ hardwareVote' = [hardwareVote EXCEPT
          !.hasVoted = hasVoted(voteEvents, hardwareVote.liveQuestion[1].id,
                                HardwareTokenHash(hardwareVote.body.deviceId)),
          !.pc = "gotHasVoted"]
    /\ UNCHANGED <<questions, voteEvents, sessions, now, audienceVote, pollsterControl, elsewhere>>

\* The duplicate and option checks, then "Record the vote": the call is
\* storage.createVote, which the storage object does not have.  The call
\* throws a TypeError, the catch of the route answers 500, and neither the
\* insert nor the vote_update emit is reached.
HardwareRecord ==
    /\ hardwareVote.pc = "gotHasVoted"
    /\ hardwareVote' =
          IF hardwareVote.hasVoted
          THEN [hardwareVote EXCEPT
                  !.pc = "done",
                  !.response = Response(400, "This device has already voted on this question")]
          ELSE IF \/ hardwareVote.body.optionIndex < 0
                  \/ hardwareVote.body.optionIndex
                       >= Len(hardwareVote.liveQuestion[1].optionsJson)
          THEN [hardwareVote EXCEPT
                  !.pc = "done", !.response = Response(400, "Invalid option index")]
          ELSE [hardwareVote EXCEPT
                  !.pc = "done", !.response = Response(500, "Failed to record vote")]
    /\ UNCHANGED <<questions, voteEvents, sessions, now, audienceVote, pollsterControl, elsewhere>>

\* the response has been sent
HardwareReturn ==
    /\ hardwareVote.pc = "done"
    /\ hardwareVote' = IdleHardware
    /\ UNCHANGED <<questions, voteEvents, sessions, now, audienceVote, pollsterControl, elsewhere>>

HardwareStep ==
    \/ HardwareGetSessionByCode
    \/ HardwareCheckSession
    \/ HardwareGetQuestions
    \/ HardwareCheckLive
    \/ HardwareHasVoted
    \/ HardwareRecord
    \/ HardwareReturn

\* PATCH /api/sessions/:sessionId/active: the update of the session row
SetSessionActive(sessionId, isActive) ==
    /\ sessions' = updateSessionActive(sessions, sessionId, isActive)
    /\ UNCHANGED <<questions, voteEvents, now, audienceVote, pollsterControl,
                   hardwareVote, elsewhere>>

----------------------------------------------------------------------------
(* io.on("connection") and socket.on("audience:join") *)

SocketIds == {"a1", "a2"}

\* a connected socket: it is in no room; currentRoom, currentSessionId and
\* isPollster as the connection handler sets them. `joined` records the
\* sessions whose join handlers have put the socket into their room.
\* currentSessionId is null, written "": both are falsy in `if (currentSessionId)`.
NewConnection ==
    [rooms |-> {}, currentRoom |-> NoPayload, currentSessionId |-> "",
     isPollster |-> FALSE, connected |-> TRUE, joined |-> {}]

\* sessionRooms after `if (!has(id)) set(id, new Set())` and `get(id).add(socketId)`
AddToRoomMap(map, sessionId, socketId) ==
    [id \in DOMAIN map \cup {sessionId} |->
        IF id = sessionId
        THEN (IF id \in DOMAIN map THEN map[id] ELSE {}) \cup {socketId}
        ELSE map[id]]

SessionNotFound == ErrorEvent("Session not found")

IdleJoin ==
    [pc |-> "idle", event |-> "audience:join", data |-> EmptyObject, session |-> <<>>, liveQuestion |-> <<>>,
     tally |-> EmptyObject, emitted |-> <<>>, before |-> EmptyObject]

\* The message arrives and the handler calls storage.getSessionByCode.
AudienceJoin(s, code) ==
    /\ connections[s].connected
    /\ audienceJoin[s].pc = "idle"
    /\ audienceJoin' = [audienceJoin EXCEPT ![s] =
          [IdleJoin EXCEPT
             !.pc = "getSessionByCode",
             !.data = [code |-> code],
             !.before = [questions |-> questions, voteEvents |-> voteEvents,
                         rooms |-> connections[s].rooms]]]
    /\ UNCHANGED <<questions, voteEvents, sessions, now, audienceVote, pollsterControl,
                   hardwareVote, connections, sessionRooms, pollsterRooms,
                   pollsterJoin, surveyCompletions,
                   surveyVote, adminRequest>>

JoinGetSessionByCode(s) ==
    /\ audienceJoin[s].pc = "getSessionByCode"
    /\ audienceJoin' = [audienceJoin EXCEPT
          ![s].session = getSessionByCode(sessions, audienceJoin[s].data.code),
          ![s].pc = "gotSession"]
    /\ UNCHANGED <<questions, voteEvents, sessions, now, audienceVote, pollsterControl,
                   hardwareVote, connections, sessionRooms, pollsterRooms,
                   pollsterJoin, surveyCompletions,
                   surveyVote, adminRequest>>

\* `if (!session)`, then the socket joins the room of the session and is put
\* into sessionRooms, and the handler calls getQuestionsBySession.
JoinEnterRoom(s) ==
    /\ audienceJoin[s].pc = "gotSession"
    /\ IF audienceJoin[s].session = <<>>
       THEN /\ audienceJoin' = [audienceJoin EXCEPT
                  ![s].pc = "done",
                  ![s].emitted = Append(audienceJoin[s].emitted, SessionNotFound)]
            /\ UNCHANGED <<connections, sessionRooms>>
       ELSE LET id == audienceJoin[s].session[1].id
            IN  /\ connections' = [connections EXCEPT
                      ![s].currentRoom = SessionRoom(id),
                      ![s].currentSessionId = id,
                      ![s].rooms = connections[s].rooms \cup {SessionRoom(id)},
                      ![s].joined = connections[s].joined \cup {id}]
                /\ sessionRooms' =
                      IF audienceJoin[s].event = "overlay:join"
                      THEN sessionRooms
                      ELSE AddToRoomMap(sessionRooms, id, s)
                /\ audienceJoin' = [audienceJoin EXCEPT ![s].pc = "getQuestionsBySession"]
    /\ UNCHANGED <<questions, voteEvents, sessions, now, audienceVote, pollsterControl,
                   hardwareVote, pollsterRooms, pollsterJoin, surveyCompletions,
                   surveyVote, adminRequest>>

JoinGetQuestions(s) ==
    /\ audienceJoin[s].pc = "getQuestionsBySession"
    /\ audienceJoin' = [audienceJoin EXCEPT
          ![s].liveQuestion =
              FindLive(getQuestionsBySession(questions, audienceJoin[s].session[1].id)),
          ![s].pc = "gotQuestions"]
    /\ UNCHANGED <<questions, voteEvents, sessions, now, audienceVote, pollsterControl,
                   hardwareVote, connections, sessionRooms, pollsterRooms,
                   pollsterJoin, surveyCompletions,
                   surveyVote, adminRequest>>

\* (mutant) the handler sends nothing when no question is LIVE
JoinNothingWithoutLive(handler) == handler.emitted

\* else branch: socket.emit("session:current_question", null)
JoinWithoutLive(handler) ==
    Append(handler.emitted, Emit(ToSocket, "session:current_question", NullPayload))

\* `if (liveQuestion)`: the call of getVoteTally, or the null event
JoinCheckLive(s) ==
    /\ audienceJoin[s].pc = "gotQuestions"
    /\ audienceJoin' = [audienceJoin EXCEPT ![s] =
          IF audienceJoin[s].liveQuestion # <<>>
          THEN [audienceJoin[s] EXCEPT !.pc = "getVoteTally"]
          ELSE [audienceJoin[s] EXCEPT
                  !.pc = "done", !.emitted = JoinWithoutLive(audienceJoin[s])]]
    /\ UNCHANGED <<questions, voteEvents, sessions, now, audienceVote, pollsterControl,
                   hardwareVote, connections, sessionRooms, pollsterRooms,
                   pollsterJoin, surveyCompletions,
                   surveyVote, adminRequest>>

JoinGetVoteTally(s) ==
    /\ audienceJoin[s].pc = "getVoteTally"
    /\ audienceJoin' = [audienceJoin EXCEPT ![s] =
          IF TallyThrows(questions, voteEvents, audienceJoin[s].liveQuestion[1].id)
          THEN [audienceJoin[s] EXCEPT !.pc = "threw"]
          ELSE [audienceJoin[s] EXCEPT
                  !.tally = getVoteTally(questions, voteEvents,
                                         audienceJoin[s].liveQuestion[1].id, now),
                  !.pc = "gotVoteTally"]]
    /\ UNCHANGED <<questions, voteEvents, sessions, now, audienceVote, pollsterControl,
                   hardwareVote, connections, sessionRooms, pollsterRooms,
                   pollsterJoin, surveyCompletions,
                   surveyVote, adminRequest>>

\* socket.emit("session:current_question", { ...liveQuestion, tally })
JoinEmit(s) ==
    /\ audienceJoin[s].pc = "gotVoteTally"
    /\ audienceJoin' = [audienceJoin EXCEPT
          ![s].emitted = Append(audienceJoin[s].emitted,
              Emit(ToSocket, "session:current_question",
                   WithTally(audienceJoin[s].liveQuestion, audienceJoin[s].tally))),
          ![s].pc = "done"]
    /\ UNCHANGED <<questions, voteEvents, sessions, now, audienceVote, pollsterControl,
                   hardwareVote, connections, sessionRooms, pollsterRooms,
                   pollsterJoin, surveyCompletions,
                   surveyVote, adminRequest>>

\* the handler has returned (or thrown): its closure is dropped
JoinReturn(s) ==
    /\ audienceJoin[s].pc \in {"done", "threw"}
    /\ audienceJoin' = [audienceJoin EXCEPT ![s] = IdleJoin]
    /\ UNCHANGED <<questions, voteEvents, sessions, now, audienceVote, pollsterControl,
                   hardwareVote, connections, sessionRooms, pollsterRooms,
                   pollsterJoin, surveyCompletions,
                   surveyVote, adminRequest>>

JoinStep(s) ==
    \/ JoinGetSessionByCode(s)
    \/ JoinEnterRoom(s)
    \/ JoinGetQuestions(s)
    \/ JoinCheckLive(s)
    \/ JoinGetVoteTally(s)
    \/ JoinEmit(s)
    \/ JoinReturn(s)

----------------------------------------------------------------------------
(* socket.on("overlay:join"), socket.on("pollster:join"), socket.on("disconnect") *)

\* overlay:join is audience:join without the entry in sessionRooms
OverlayJoin(s, code) ==
    /\ connections[s].connected
    /\ audienceJoin[s].pc = "idle"
    /\ audienceJoin' = [audienceJoin EXCEPT ![s] =
          [IdleJoin EXCEPT
             !.pc = "getSessionByCode",
             !.event = "overlay:join",
             !.data = [code |-> code],
             !.before = [questions |-> questions, voteEvents |-> voteEvents,
                         rooms |-> connections[s].rooms]]]
    /\ UNCHANGED <<questions, voteEvents, sessions, now, audienceVote, pollsterControl,
                   hardwareVote, connections, sessionRooms, pollsterRooms,
                   pollsterJoin, surveyCompletions, surveyVote, adminRequest>>

PollsterRoom(sessionId) == <<"pollster", sessionId>>

\* The message arrives: with no lookup of the session the handler sets the
\* closure's variables, joins both rooms, enters pollsterRooms and calls
\* storage.getQuestionsBySession.
PollsterJoin(s, sessionId) ==
    /\ connections[s].connected
    /\ pollsterJoin[s].pc = "idle"
    /\ connections' = [connections EXCEPT
          ![s].currentRoom = SessionRoom(sessionId),
          ![s].currentSessionId = sessionId,
          ![s].isPollster = TRUE,
          ![s].rooms = connections[s].rooms
                          \cup {SessionRoom(sessionId), PollsterRoom(sessionId)},
          ![s].joined = connections[s].joined \cup {sessionId}]
    /\ pollsterRooms' = AddToRoomMap(pollsterRooms, sessionId, s)
    /\ pollsterJoin' = [pollsterJoin EXCEPT ![s] =
          [IdleJoin EXCEPT
             !.pc = "getQuestionsBySession",
             !.event = "pollster:join",
             !.data = [sessionId |-> sessionId],
             !.before = [questions |-> questions, voteEvents |-> voteEvents,
                         rooms |-> connections[s].rooms]]]
    /\ UNCHANGED <<questions, voteEvents, sessions, now, audienceVote, pollsterControl,
                   hardwareVote, sessionRooms, audienceJoin, surveyCompletions,
                   surveyVote, adminRequest>>

PollsterJoinGetQuestions(s) ==
    /\ pollsterJoin[s].pc = "getQuestionsBySession"
    /\ pollsterJoin' = [pollsterJoin EXCEPT
          ![s].liveQuestion =
              FindLive(getQuestionsBySession(questions, pollsterJoin[s].data.sessionId)),
          ![s].pc = "gotQuestions"]
    /\ UNCHANGED <<questions, voteEvents, sessions, now, audienceVote, pollsterControl,
                   hardwareVote, connections, sessionRooms, pollsterRooms,
                   audienceJoin, surveyCompletions, surveyVote, adminRequest>>

\* `if (liveQuestion)`: the call of getVoteTally, or the null event
PollsterJoinCheckLive(s) ==
    /\ pollsterJoin[s].pc = "gotQuestions"
    /\ pollsterJoin' = [pollsterJoin EXCEPT ![s] =
          IF pollsterJoin[s].liveQuestion # <<>>
          THEN [pollsterJoin[s] EXCEPT !.pc = "getVoteTally"]
          ELSE [pollsterJoin[s] EXCEPT
                  !.pc = "done", !.emitted = JoinWithoutLive(pollsterJoin[s])]]
    /\ UNCHANGED <<questions, voteEvents, sessions, now, audienceVote, pollsterControl,
                   hardwareVote, connections, sessionRooms, pollsterRooms,
                   audienceJoin, surveyCompletions, surveyVote, adminRequest>>

PollsterJoinGetVoteTally(s) ==
    /\ pollsterJoin[s].pc = "getVoteTally"
    /\ pollsterJoin' = [pollsterJoin EXCEPT ![s] =
          IF TallyThrows(questions, voteEvents, pollsterJoin[s].liveQuestion[1].id)
          THEN [pollsterJoin[s] EXCEPT !.pc = "threw"]
          ELSE [pollsterJoin[s] EXCEPT
                  !.tally = getVoteTally(questions, voteEvents,
                                         pollsterJoin[s].liveQuestion[1].id, now),
                  !.pc = "gotVoteTally"]]
    /\ UNCHANGED <<questions, voteEvents, sessions, now, audienceVote, pollsterControl,
                   hardwareVote, connections, sessionRooms, pollsterRooms,
                   audienceJoin, surveyCompletions, surveyVote, adminRequest>>

\* socket.emit of session:current_question and of session:results
PollsterJoinEmit(s) ==
    /\ pollsterJoin[s].pc = "gotVoteTally"
    /\ pollsterJoin' = [pollsterJoin EXCEPT
          ![s].emitted = pollsterJoin[s].emitted \o
              << Emit(ToSocket, "session:current_question",
                      WithTally(pollsterJoin[s].liveQuestion, pollsterJoin[s].tally)),
                 Emit(ToSocket, "session:results",
                      [questionId |-> pollsterJoin[s].liveQuestion[1].id,
                       tally |-> pollsterJoin[s].tally]) >>,
          ![s].pc = "done"]
    /\ UNCHANGED <<questions, voteEvents, sessions, now, audienceVote, pollsterControl,
                   hardwareVote, connections, sessionRooms, pollsterRooms,
                   audienceJoin, surveyCompletions, surveyVote, adminRequest>>

\* the handler has returned (or thrown): its closure is dropped
PollsterJoinReturn(s) ==
    /\ pollsterJoin[s].pc \in {"done", "threw"}
    /\ pollsterJoin' = [pollsterJoin EXCEPT ![s] = IdleJoin]
    /\ UNCHANGED <<questions, voteEvents, sessions, now, audienceVote, pollsterControl,
                   hardwareVote, connections, sessionRooms, pollsterRooms,
                   audienceJoin, surveyCompletions, surveyVote, adminRequest>>

PollsterJoinStep(s) ==
    \/ PollsterJoinGetQuestions(s)
    \/ PollsterJoinCheckLive(s)
    \/ PollsterJoinGetVoteTally(s)
    \/ PollsterJoinEmit(s)
    \/ PollsterJoinReturn(s)

\* `map.get(sessionId)?.delete(socketId)`
DeleteFromRoomMap(map, sessionId, socketId) ==
    [id \in DOMAIN map |-> IF id = sessionId THEN map[id] \ {socketId} ELSE map[id]]

\* The socket disconnects: it leaves its rooms, and the handler deletes its
\* id from the sets of the session named by currentSessionId. Handlers of
\* the socket that await storage go on.
Disconnect(s) ==
    /\ connections[s].connected
    /\ connections' = [connections EXCEPT ![s].connected = FALSE, ![s].rooms = {}]
    /\ sessionRooms' =
          IF connections[s].currentSessionId # ""
          THEN DeleteFromRoomMap(sessionRooms, connections[s].currentSessionId, s)
          ELSE sessionRooms
    /\ pollsterRooms' =
          IF connections[s].currentSessionId # "" /\ connections[s].isPollster
          THEN DeleteFromRoomMap(pollsterRooms, connections[s].currentSessionId, s)
          ELSE pollsterRooms
    /\ UNCHANGED <<questions, voteEvents, sessions, now, audienceVote, pollsterControl,
                   hardwareVote, pollsterJoin, audienceJoin, surveyCompletions,
                   surveyVote, adminRequest>>

----------------------------------------------------------------------------
(* POST /api/sessions/:sessionId/survey/vote *)

\* select from sessions where id = id: none or one row
getSession(stable, id) ==
    IF id \in DOMAIN stable THEN <<stable[id]>> ELSE <<>>

getSurveyCompletion(ctable, id) ==
    IF id \in DOMAIN ctable THEN <<ctable[id]>> ELSE <<>>

createSurveyCompletion(ctable, id, completion) ==
    [c \in DOMAIN ctable \cup {id} |->
        IF c = id
        THEN [id |-> id, sessionId |-> completion.sessionId, completedAt |-> Null,
              questionsAnswered |-> 0, totalQuestions |-> completion.totalQuestions]
        ELSE ctable[c]]

updateSurveyProgress(ctable, id, questionsAnswered) ==
    IF id \notin DOMAIN ctable THEN ctable
    ELSE [ctable EXCEPT ![id].questionsAnswered = questionsAnswered]

\* POST /api/sessions/:sessionId/survey/start for a participant: the session
\* is a survey and active, and the completion row is inserted.  One survey
\* is started in the model; its id is "c1".
SurveyStart(sessionId) ==
    /\ "c1" \notin DOMAIN surveyCompletions
    /\ getSession(sessions, sessionId) # <<>>
    /\ sessions[sessionId].mode = "survey"
    /\ sessions[sessionId].isActive
    /\ surveyCompletions' =
          createSurveyCompletion(surveyCompletions, "c1",
              [sessionId |-> sessionId,
               totalQuestions |-> Len(getQuestionsBySession(questions, sessionId))])
    /\ UNCHANGED <<questions, voteEvents, sessions, now, audienceVote, pollsterControl,
                   hardwareVote, connections, sessionRooms, pollsterRooms,
                   pollsterJoin, audienceJoin, surveyVote,
                   adminRequest>>

IdleSurvey ==
    [pc |-> "idle", params |-> EmptyObject, body |-> EmptyObject, session |-> <<>>,
     completion |-> <<>>, question |-> <<>>, hasVoted |-> FALSE,
     response |-> EmptyObject, emitted |-> <<>>, before |-> EmptyObject]

\* the handler at another await, or at its end with a response
SurveyAt(pc) == [surveyVote EXCEPT !.pc = pc]
SurveyEnds(status, error) ==
    [surveyVote EXCEPT !.pc = "done", !.response = Response(status, error)]

\* the most answers a survey gets in the model
MaxAnswered == 2

\* The request arrives and the handler calls storage.getSession.
SurveyVote(sessionId, body) ==
    /\ surveyVote.pc = "idle"
    /\ Len(voteEvents) + VotesPending < MaxVotes
    /\ \A c \in DOMAIN surveyCompletions :
          surveyCompletions[c].questionsAnswered < MaxAnswered
    /\ surveyVote' = [IdleSurvey EXCEPT
          !.pc = "getSession",
          !.params = [sessionId |-> sessionId],
          !.body = body,
          !.before = [questions |-> questions, voteEvents |-> voteEvents]]
    /\ UNCHANGED <<questions, voteEvents, sessions, now, audienceVote, pollsterControl,
                   hardwareVote, connections, sessionRooms, pollsterRooms,
                   pollsterJoin, audienceJoin,
                   surveyCompletions, adminRequest>>

SurveyGetSession ==
    /\ surveyVote.pc = "getSession"
    /\ surveyVote' = [surveyVote EXCEPT
          !.session = getSession(sessions, surveyVote.params.sessionId),
          !.pc = "gotSession"]
    /\ UNCHANGED <<questions, voteEvents, sessions, now, audienceVote, pollsterControl,
                   hardwareVote, connections, sessionRooms, pollsterRooms,
                   pollsterJoin, audienceJoin,
                   surveyCompletions, adminRequest>>

\* if (!session || !session.isActive)
SurveyCheckSession ==
    /\ surveyVote.pc = "gotSession"
    /\ surveyVote' =
          IF surveyVote.session = <<>> \/ ~surveyVote.session[1].isActive
          THEN SurveyEnds(403, "This survey is closed")
          ELSE SurveyAt("getSurveyCompletion")
    /\ UNCHANGED <<questions, voteEvents, sessions, now, audienceVote, pollsterControl,
                   hardwareVote, connections, sessionRooms, pollsterRooms,
                   pollsterJoin, audienceJoin,
                   surveyCompletions, adminRequest>>

SurveyGetCompletion ==
    /\ surveyVote.pc = "getSurveyCompletion"
    /\ surveyVote' = [surveyVote EXCEPT
          !.completion = getSurveyCompletion(surveyCompletions, surveyVote.body.surveyId),
          !.pc = "gotCompletion"]
    /\ UNCHANGED <<questions, voteEvents, sessions, now, audienceVote, pollsterControl,
                   hardwareVote, connections, sessionRooms, pollsterRooms,
                   pollsterJoin, audienceJoin,
                   surveyCompletions, adminRequest>>

\* if (!completion || completion.completedAt)
SurveyCheckCompletion ==
    /\ surveyVote.pc = "gotCompletion"
    /\ surveyVote' =
          IF surveyVote.completion = <<>> \/ surveyVote.completion[1].completedAt # Null
          THEN SurveyEnds(400, "Invalid or completed survey")
          ELSE SurveyAt("getQuestion")
    /\ UNCHANGED <<questions, voteEvents, sessions, now, audienceVote, pollsterControl,
                   hardwareVote, connections, sessionRooms, pollsterRooms,
                   pollsterJoin, audienceJoin,
                   surveyCompletions, adminRequest>>

SurveyGetQuestion ==
    /\ surveyVote.pc = "getQuestion"
    /\ surveyVote' = [surveyVote EXCEPT
          !.question = getQuestion(questions, surveyVote.body.questionId),
          !.pc = "gotQuestion"]
    /\ UNCHANGED <<questions, voteEvents, sessions, now, audienceVote, pollsterControl,
                   hardwareVote, connections, sessionRooms, pollsterRooms,
                   pollsterJoin, audienceJoin,
                   surveyCompletions, adminRequest>>

\* if (!question || question.sessionId !== req.params.sessionId): the state
\* of the question and isFrozen are not looked at
SurveyCheckQuestion ==
    /\ surveyVote.pc = "gotQuestion"
    /\ surveyVote' =
          IF \/ surveyVote.question = <<>>
             \/ surveyVote.question[1].sessionId # surveyVote.params.sessionId
          THEN SurveyEnds(404, "Question not found")
          ELSE SurveyAt("hasVoted")
    /\ UNCHANGED <<questions, voteEvents, sessions, now, audienceVote, pollsterControl,
                   hardwareVote, connections, sessionRooms, pollsterRooms,
                   pollsterJoin, audienceJoin,
                   surveyCompletions, adminRequest>>

SurveyHasVoted ==
    /\ surveyVote.pc = "hasVoted"
    /\ surveyVote' = [surveyVote EXCEPT
          !.hasVoted = hasVoted(voteEvents, surveyVote.body.questionId,
                                surveyVote.body.voterToken),
          !.pc = "gotHasVoted"]
    /\ UNCHANGED <<questions, voteEvents, sessions, now, audienceVote, pollsterControl,
                   hardwareVote, connections, sessionRooms, pollsterRooms,
                   pollsterJoin, audienceJoin,
                   surveyCompletions, adminRequest>>

\* (mutant) the endpoint does not look at hasVoted
SurveyDuplicateIgnored(handler) == FALSE

\* if (hasVoted)
SurveyDuplicate(handler) == handler.hasVoted

SurveyCheckDuplicate ==
    /\ surveyVote.pc = "gotHasVoted"
    /\ surveyVote' =
          IF SurveyDuplicate(surveyVote)
          THEN SurveyEnds(400, "Already voted on this question")
          ELSE SurveyAt("createVoteEvent")
    /\ UNCHANGED <<questions, voteEvents, sessions, now, audienceVote, pollsterControl,
                   hardwareVote, connections, sessionRooms, pollsterRooms,
                   pollsterJoin, audienceJoin,
                   surveyCompletions, adminRequest>>

\* the argument of createVoteEvent: segment || "room", the payload as sent
SurveyInsertVote ==
    [sessionId |-> surveyVote.params.sessionId,
     questionId |-> surveyVote.body.questionId,
     voterTokenHash |-> surveyVote.body.voterToken,
     segment |-> IF Has(surveyVote.body, "segment") /\ surveyVote.body.segment # ""
                 THEN surveyVote.body.segment ELSE "room",
     payloadJson |-> IF Has(surveyVote.body, "payload")
                     THEN surveyVote.body.payload ELSE NoPayload]

\* The insert runs, or the database refuses it and the catch answers 500.
SurveyCreateVoteEvent ==
    /\ surveyVote.pc = "createVoteEvent"
    /\ IF InsertRefused(SurveyInsertVote)
       THEN /\ surveyVote' = SurveyEnds(500, "Internal server error")
            /\ UNCHANGED voteEvents
       ELSE /\ voteEvents' = createVoteEvent(voteEvents, SurveyInsertVote, now)
            /\ surveyVote' = SurveyAt("updateSurveyProgress")
    /\ UNCHANGED <<questions, sessions, now, audienceVote, pollsterControl,
                   hardwareVote, connections, sessionRooms, pollsterRooms,
                   pollsterJoin, audienceJoin,
                   surveyCompletions, adminRequest>>

\* newProgress = completion.questionsAnswered + 1, of the row read earlier
SurveyUpdateProgress ==
    /\ surveyVote.pc = "updateSurveyProgress"
    /\ surveyCompletions' =
          updateSurveyProgress(surveyCompletions, surveyVote.body.surveyId,
                               surveyVote.completion[1].questionsAnswered + 1)
    /\ surveyVote' = SurveyAt("getVoteTally")
    /\ UNCHANGED <<questions, voteEvents, sessions, now, audienceVote, pollsterControl,
                   hardwareVote, connections, sessionRooms, pollsterRooms,
                   pollsterJoin, audienceJoin, adminRequest>>

\* the tally for vote_update, then the emit and the response; a throw of
\* getVoteTally is caught and answered with 500
SurveyGetVoteTally ==
    /\ surveyVote.pc = "getVoteTally"
    /\ surveyVote' =
          IF TallyThrows(questions, voteEvents, surveyVote.body.questionId)
          THEN SurveyEnds(500, "Internal server error")
          ELSE [surveyVote EXCEPT
                  !.emitted = Append(surveyVote.emitted,
                      Emit(SessionRoom(surveyVote.params.sessionId), "vote_update",
                           [questionId |-> surveyVote.body.questionId,
                            tally |-> getVoteTally(questions, voteEvents,
                                                   surveyVote.body.questionId, now)])),
                  !.response = [status |-> 200, success |-> TRUE,
                                questionsAnswered |->
                                    surveyVote.completion[1].questionsAnswered + 1],
                  !.pc = "done"]
    /\ UNCHANGED <<questions, voteEvents, sessions, now, audienceVote, pollsterControl,
                   hardwareVote, connections, sessionRooms, pollsterRooms,
                   pollsterJoin, audienceJoin,
                   surveyCompletions, adminRequest>>

\* the response has been sent
SurveyReturn ==
    /\ surveyVote.pc = "done"
    /\ surveyVote' = IdleSurvey
    /\ UNCHANGED <<questions, voteEvents, sessions, now, audienceVote, pollsterControl,
                   hardwareVote, connections, sessionRooms, pollsterRooms,
                   pollsterJoin, audienceJoin,
                   surveyCompletions, adminRequest>>

SurveyStep ==
    \/ SurveyGetSession
    \/ SurveyCheckSession
    \/ SurveyGetCompletion
    \/ SurveyCheckCompletion
    \/ SurveyGetQuestion
    \/ SurveyCheckQuestion
    \/ SurveyHasVoted
    \/ SurveyCheckDuplicate
    \/ SurveyCreateVoteEvent
    \/ SurveyUpdateProgress
    \/ SurveyGetVoteTally
    \/ SurveyReturn

----------------------------------------------------------------------------
(* DELETE /api/sessions/:id and DELETE /api/sessions/:sessionId/questions/:questionId *)

\* the rows of a table that a delete statement leaves
Remaining(table, Deleted(_)) ==
    [k \in {x \in DOMAIN table : ~Deleted(table[x])} |-> table[k]]

\* deleteSession is four statements, run one after the other
deleteSessionCompletions(ctable, id) ==
    Remaining(ctable, LAMBDA c : c.sessionId = id)

deleteSessionVotes(events, id) ==
    SelectSeq(events, LAMBDA v : v.sessionId # id)

deleteSessionQuestions(qtable, id) ==
    Remaining(qtable, LAMBDA q : q.sessionId = id)

deleteSessionRow(stable, id) ==
    Remaining(stable, LAMBDA s : s.id = id)

\* (mutant) the first statement of deleteQuestion without its where clause
deleteEveryVote(events, id) == <<>>

\* deleteQuestion is two statements, run one after the other
deleteQuestionVotes(events, id) ==
    SelectSeq(events, LAMBDA v : v.questionId # id)

deleteQuestionRow(qtable, id) ==
    Remaining(qtable, LAMBDA q : q.id = id)

\* The foreign keys are ON DELETE no action: a delete of rows that other rows
\* still refer to is refused and the call rejects.
QuestionsReferenced(qtable, events, sessionId) ==
    \E i \in 1..Len(events) :
        /\ events[i].questionId \in DOMAIN qtable
        /\ qtable[events[i].questionId].sessionId = sessionId

QuestionReferenced(events, id) ==
    \E i \in 1..Len(events) : events[i].questionId = id

SessionReferenced(qtable, events, ctable, id) ==
    \/ \E q \in DOMAIN qtable : qtable[q].sessionId = id
    \/ \E i \in 1..Len(events) : events[i].sessionId = id
    \/ \E c \in DOMAIN ctable : ctable[c].sessionId = id

IdleAdmin ==
    [pc |-> "idle", request |-> EmptyObject, session |-> <<>>,
     response |-> EmptyObject, before |-> EmptyObject]

AdminAt(pc) == [adminRequest EXCEPT !.pc = pc]
AdminEnds(status, error) ==
    [adminRequest EXCEPT !.pc = "done", !.response = Response(status, error)]
AdminSucceeds ==
    [adminRequest EXCEPT !.pc = "done", !.response = [status |-> 200, success |-> TRUE]]

\* A DELETE request of a signed-in user arrives and the handler calls
\* storage.getSession.  `owner` says whether the user created the session
\* or is an administrator.
AdminArrives(route, sessionId, questionId, owner) ==
    /\ adminRequest.pc = "idle"
    /\ adminRequest' = [IdleAdmin EXCEPT
          !.pc = "getSession",
          !.request = [route |-> route, sessionId |-> sessionId,
                       questionId |-> questionId, owner |-> owner],
          !.before = [questions |-> questions, voteEvents |-> voteEvents]]
    /\ UNCHANGED <<questions, voteEvents, sessions, now, audienceVote, pollsterControl,
                   hardwareVote, connections, sessionRooms, pollsterRooms,
                   pollsterJoin, audienceJoin,
                   surveyCompletions, surveyVote>>

DeleteSession(sessionId, owner) ==
    AdminArrives("deleteSession", sessionId, "", owner)

DeleteQuestion(sessionId, questionId, owner) ==
    AdminArrives("deleteQuestion", sessionId, questionId, owner)

AdminGetSession ==
    /\ adminRequest.pc = "getSession"
    /\ adminRequest' = [adminRequest EXCEPT
          !.session = getSession(sessions, adminRequest.request.sessionId),
          !.pc = "gotSession"]
    /\ UNCHANGED <<questions, voteEvents, sessions, now, audienceVote, pollsterControl,
                   hardwareVote, connections, sessionRooms, pollsterRooms,
                   pollsterJoin, audienceJoin,
                   surveyCompletions, surveyVote>>

\* getUser, then the checks: the session route answers 404 without session
\* and 403 without access, the question route 404 for both
AdminCheckAccess ==
    /\ adminRequest.pc = "gotSession"
    /\ adminRequest' =
          IF adminRequest.request.route = "deleteSession"
          THEN IF adminRequest.session = <<>>
               THEN AdminEnds(404, "Session not found")
               ELSE IF ~adminRequest.request.owner
               THEN AdminEnds(403, "Not authorized to delete this session")
               ELSE AdminAt("deleteSessionCompletions")
          ELSE IF adminRequest.session = <<>> \/ ~adminRequest.request.owner
               THEN AdminEnds(404, "Session not found")
               ELSE AdminAt("deleteQuestionVotes")
    /\ UNCHANGED <<questions, voteEvents, sessions, now, audienceVote, pollsterControl,
                   hardwareVote, connections, sessionRooms, pollsterRooms,
                   pollsterJoin, audienceJoin,
                   surveyCompletions, surveyVote>>

DeleteSessionCompletions ==
    /\ adminRequest.pc = "deleteSessionCompletions"
    /\ surveyCompletions' =
          deleteSessionCompletions(surveyCompletions, adminRequest.request.sessionId)
    /\ adminRequest' = AdminAt("deleteSessionVotes")
    /\ UNCHANGED <<questions, voteEvents, sessions, now, audienceVote, pollsterControl,
                   hardwareVote, connections, sessionRooms, pollsterRooms,
                   pollsterJoin, audienceJoin, surveyVote>>

DeleteSessionVotes ==
    /\ adminRequest.pc = "deleteSessionVotes"
    /\ voteEvents' = deleteSessionVotes(voteEvents, adminRequest.request.sessionId)
    /\ adminRequest' = AdminAt("deleteSessionQuestions")
    /\ UNCHANGED <<questions, sessions, now, audienceVote, pollsterControl,
                   hardwareVote, connections, sessionRooms, pollsterRooms,
                   pollsterJoin, audienceJoin,
                   surveyCompletions, surveyVote>>

DeleteSessionQuestions ==
    /\ adminRequest.pc = "deleteSessionQuestions"
    /\ IF QuestionsReferenced(questions, voteEvents, adminRequest.request.sessionId)
       THEN /\ adminRequest' = AdminEnds(500, "Internal server error")
            /\ UNCHANGED questions
       ELSE /\ questions' =
                  deleteSessionQuestions(questions, adminRequest.request.sessionId)
            /\ adminRequest' = AdminAt("deleteSessionRow")
    /\ UNCHANGED <<voteEvents, sessions, now, audienceVote, pollsterControl,
                   hardwareVote, connections, sessionRooms, pollsterRooms,
                   pollsterJoin, audienceJoin,
                   surveyCompletions, surveyVote>>

DeleteSessionRow ==
    /\ adminRequest.pc = "deleteSessionRow"
    /\ IF SessionReferenced(questions, voteEvents, surveyCompletions,
                            adminRequest.request.sessionId)
       THEN /\ adminRequest' = AdminEnds(500, "Internal server error")
            /\ UNCHANGED sessions
       ELSE /\ sessions' = deleteSessionRow(sessions, adminRequest.request.sessionId)
            /\ adminRequest' = AdminSucceeds
    /\ UNCHANGED <<questions, voteEvents, now, audienceVote, pollsterControl,
                   hardwareVote, connections, sessionRooms, pollsterRooms,
                   pollsterJoin, audienceJoin,
                   surveyCompletions, surveyVote>>

\* storage.deleteQuestion(req.params.questionId): the question is not looked
\* up, nor compared with the session of the route
DeleteQuestionVotes ==
    /\ adminRequest.pc = "deleteQuestionVotes"
    /\ voteEvents' = deleteQuestionVotes(voteEvents, adminRequest.request.questionId)
    /\ adminRequest' = AdminAt("deleteQuestionRow")
    /\ UNCHANGED <<questions, sessions, now, audienceVote, pollsterControl,
                   hardwareVote, connections, sessionRooms, pollsterRooms,
                   pollsterJoin, audienceJoin,
                   surveyCompletions, surveyVote>>

DeleteQuestionRow ==
    /\ adminRequest.pc = "deleteQuestionRow"
    /\ IF QuestionReferenced(voteEvents, adminRequest.request.questionId)
       THEN /\ adminRequest' = AdminEnds(500, "Internal server error")
            /\ UNCHANGED questions
       ELSE /\ questions' = deleteQuestionRow(questions, adminRequest.request.questionId)
            /\ adminRequest' = AdminSucceeds
    /\ UNCHANGED <<voteEvents, sessions, now, audienceVote, pollsterControl,
                   hardwareVote, connections, sessionRooms, pollsterRooms,
                   pollsterJoin, audienceJoin,
                   surveyCompletions, surveyVote>>

\* the response has been sent
AdminReturn ==
    /\ adminRequest.pc = "done"
    /\ adminRequest' = IdleAdmin
    /\ UNCHANGED <<questions, voteEvents, sessions, now, audienceVote, pollsterControl,
                   hardwareVote, connections, sessionRooms, pollsterRooms,
                   pollsterJoin, audienceJoin,
                   surveyCompletions, surveyVote>>

AdminStep ==
    \/ AdminGetSession
    \/ AdminCheckAccess
    \/ DeleteSessionCompletions
    \/ DeleteSessionVotes
    \/ DeleteSessionQuestions
    \/ DeleteSessionRow
    \/ DeleteQuestionVotes
    \/ DeleteQuestionRow
    \/ AdminReturn

----------------------------------------------------------------------------
(* The clock *)

MaxTime == 13

\* a second passes
Tick ==
    /\ now < MaxTime
    /\ now' = now + 1
    /\ UNCHANGED <<questions, voteEvents, sessions, audienceVote, pollsterControl,
                   hardwareVote, elsewhere>>

----------------------------------------------------------------------------
(* The system *)

Init ==
    /\ sessions = [id \in SessionIds |-> NewSession(id)]
    /\ hardwareVote = IdleHardware
    /\ \E type \in QuestionTypes :
          questions = [id \in QuestionIds |->
                         NewQuestion(id, IF id = "q1" THEN type ELSE "multiple_choice")]
    /\ voteEvents = <<>>
    /\ now = 1
    /\ audienceVote = [h \in VoteHandlerIds |-> IdleVote]
    /\ pollsterControl = [c \in ControlHandlerIds |-> IdleControl]
    /\ connections = [s \in SocketIds |-> NewConnection]
    /\ sessionRooms = [id \in {} |-> {}]
    /\ pollsterRooms = [id \in {} |-> {}]
    /\ pollsterJoin = [s \in SocketIds |-> IdleJoin]
    /\ audienceJoin = [s \in SocketIds |-> IdleJoin]
    /\ surveyCompletions = [id \in {} |-> EmptyObject]
    /\ surveyVote = IdleSurvey
    /\ adminRequest = IdleAdmin

\* no handler is running
Quiet ==
    /\ \A h \in VoteHandlerIds : audienceVote[h].pc = "idle"
    /\ \A c \in ControlHandlerIds : pollsterControl[c].pc = "idle"
    /\ hardwareVote.pc = "idle"
    /\ \A s \in SocketIds : audienceJoin[s].pc = "idle"
    /\ \A s \in SocketIds : pollsterJoin[s].pc = "idle"
    /\ surveyVote.pc = "idle"
    /\ adminRequest.pc = "idle"

\* the steps of a go_live, and of the code after the switch
GoLiveStep(c) ==
    \/ ControlGetQuestion(c)
    \/ ControlSwitch(c)
    \/ GoLiveListQuestions(c)
    \/ GoLiveLoop(c)
    \/ GoLiveCloseOther(c)
    \/ GoLiveUpdate(c)
    \/ GoLiveGetVoteTally(c)
    \/ GoLiveEmit(c)
    \/ ResultsGetVoteTally(c)
    \/ ResultsEmit(c)
    \/ ControlReturn(c)

VoterTokens == {"v1", "v2"}

\* what the audience page sends for a question of a type
ClientPayload(type) ==
    CASE type = "multiple_choice" -> [optionId |-> 0]
      [] type = "slider" -> [value |-> 50]
      [] type = "emoji" -> [emoji |-> "thumbsup"]

----------------------------------------------------------------------------
(* The console and the audience, one message at a time: a message is        *)
(* received when the handler of the one before it has returned.             *)

\* an action name that is no case of the switch
UnknownAction == "archive"

Next ==
    \/ \E a \in Actions \cup {UnknownAction}, q \in {"q1", UnknownQuestionId} :
          Quiet /\ PollsterControl(1, a, q)
    \/ \E a \in {"go_live", "close"} : Quiet /\ PollsterControl(1, a, "q2")
    \/ ControlStep(1)
    \/ \E q \in {"q1", UnknownQuestionId}, v \in VoterTokens,
          p \in {ClientPayload(questions["q1"].type), NoPayload} :
          Quiet /\ AudienceVote(1, q, p, v, "room")
    \/ VoteStep(1)
    \/ VoteReturn(1)

Spec == Init /\ [][Next]_vars

Range(seq) == {seq[i] : i \in 1..Len(seq)}

VotesBy(events, questionId, voterToken) ==
    CountWhere(events, LAMBDA v : v.questionId = questionId
                                  /\ v.voterTokenHash = voterToken)

VotesOn(events, questionId) ==
    CountWhere(events, LAMBDA v : v.questionId = questionId)

\* the tables as the handler found them when its message arrived
VotableBefore(handler) ==
    LET q == handler.data.questionId
        qtable == handler.before.questions
    IN  /\ q \in DOMAIN qtable
        /\ qtable[q].state = "LIVE"
        /\ ~qtable[q].isFrozen

Sent(handler, event) ==
    \E i \in 1..Len(handler.emitted) : handler.emitted[i].event = event

\* C5: when a reset of a question has completed, the tally of the question
\* has total 0 and the question is in DRAFT, not revealed, not frozen, with
\* openedAt and closedAt NULL.
C5_ResetClearsState ==
    \A c \in ControlHandlerIds :
        LET handler == pollsterControl[c]
            q == handler.data.questionId
        IN  (handler.pc = "done" /\ handler.data.action = "reset"
             /\ handler.question # <<>>)
            => /\ getVoteTally(questions, voteEvents, q, now).total = 0
               /\ questions[q].state = "DRAFT"
               /\ ~questions[q].isRevealed
               /\ ~questions[q].isFrozen
               /\ questions[q].openedAt = Null
               /\ questions[q].closedAt = Null

\* a reset has completed on a question that was closed, revealed and frozen
\* and had votes
C5_Witness ==
    LET handler == pollsterControl[1]
        q == handler.data.questionId
    IN  /\ handler.pc = "done"
        /\ handler.data.action = "reset"
        /\ handler.question # <<>>
        /\ handler.before.questions[q].state = "CLOSED"
        /\ handler.before.questions[q].isRevealed
        /\ handler.before.questions[q].isFrozen
        /\ handler.before.questions[q].closedAt # Null
        /\ VotesOn(handler.before.voteEvents, q) = 2

\* C7: an audience:vote for a question that does not exist, is not LIVE or is
\* frozen when the vote arrives ends with the error 'Cannot vote on this
\* question' and nothing else: no Vote Event is appended and no
\* session:results is sent.
C7_NotVotableRejected ==
    \A h \in VoteHandlerIds :
        LET handler == audienceVote[h]
        IN  (handler.pc # "idle" /\ ~VotableBefore(handler))
            => /\ handler.pc \in {"getQuestion", "gotQuestion", "done"}
               /\ handler.pc = "done" => handler.emitted = <<CannotVote>>
               /\ handler.pc # "done" => handler.emitted = <<>>
               /\ voteEvents = handler.before.voteEvents
               /\ ~Sent(handler, "session:results")

\* a vote for a closed question that has votes was rejected
C7_Witness ==
    LET handler == audienceVote[1]
    IN  /\ handler.pc = "done"
        /\ handler.data.questionId = "q1"
        /\ handler.before.questions["q1"].state = "CLOSED"
        /\ VotesOn(voteEvents, "q1") > 0
        /\ handler.emitted = <<CannotVote>>

\* a vote for a question id that names no question was rejected
C7_WitnessUnknown ==
    /\ audienceVote[1].pc = "done"
    /\ audienceVote[1].data.questionId = UnknownQuestionId
    /\ audienceVote[1].emitted = <<CannotVote>>

\* C8: a voter who has a Vote Event on a LIVE, unfrozen multiple-choice or
\* slider question and submits again gets 'Already voted'; the vote log and
\* the tally of the question stay as they were.
C8_DuplicateRejected ==
    \A h \in VoteHandlerIds :
        LET handler == audienceVote[h]
            q == handler.data.questionId
        IN  ( /\ handler.pc \in {"done", "threw"}
              /\ VotableBefore(handler)
              /\ handler.before.questions[q].type \in {"multiple_choice", "slider"}
              /\ VotesBy(handler.before.voteEvents, q, handler.data.voterToken) > 0 )
            => /\ handler.pc = "done"
               /\ handler.emitted = <<AlreadyVoted>>
               /\ voteEvents = handler.before.voteEvents
               /\ getVoteTally(questions, voteEvents, q, now)
                    = getVoteTally(handler.before.questions,
                                   handler.before.voteEvents, q, now)

\* the second vote of a voter on a LIVE question that has the votes of both
\* voters was rejected
C8_Witness ==
    LET handler == audienceVote[1]
    IN  /\ handler.pc = "done"
        /\ handler.data.questionId = "q1"
        /\ VotableBefore(handler)
        /\ questions["q1"].type \in {"multiple_choice", "slider"}
        /\ VotesBy(handler.before.voteEvents, "q1", handler.data.voterToken) = 1
        /\ VotesOn(voteEvents, "q1") = 2
        /\ handler.emitted = <<AlreadyVoted>>

C10_AcceptedOrError ==
    \A h \in VoteHandlerIds :
        LET handler == audienceVote[h]
            q == handler.data.questionId
        IN  handler.pc \in {"done", "threw"}
            => \/ /\ Len(voteEvents) = Len(handler.before.voteEvents) + 1
                  /\ handler.emitted[Len(handler.emitted)]
                       = SessionResults("s1", q, getVoteTally(questions, voteEvents, q, now))
               \/ /\ Sent(handler, "error")
                  /\ voteEvents = handler.before.voteEvents
                  /\ questions = handler.before.questions

(* Votes racing: the pollster takes questions live one action at a time, and *)
(* audience:vote handlers run concurrently.                                  *)
NextVoteRace ==
    \/ \E q \in QuestionIds : Quiet /\ PollsterControl(1, "go_live", q)
    \/ GoLiveStep(1)
    \/ \E h \in VoteHandlerIds, v \in VoterTokens :
          /\ pollsterControl[1].pc = "idle"
          /\ AudienceVote(h, "q1", [optionId |-> 0], v, "room")
    \/ \E h \in VoteHandlerIds : VoteStep(h)

SpecVoteRace == Init /\ [][NextVoteRace]_vars

\* the audience:vote handlers for a question and a voter that found the
\* question votable
Submissions(questionId, voterToken) ==
    {h \in VoteHandlerIds :
        /\ audienceVote[h].pc # "idle"
        /\ audienceVote[h].data.questionId = questionId
        /\ audienceVote[h].data.voterToken = voterToken
        /\ audienceVote[h].pc \notin {"getQuestion", "gotQuestion"}
        /\ Votable(audienceVote[h].question)}

\* C1: on a multiple-choice or slider question, N >= 2 audience:vote
\* submissions of one voter that run concurrently (all received before any of
\* them inserted) leave exactly one Vote Event of that voter on the question,
\* and every submission but the one that was confirmed got 'Already voted'.
C1_NoDoubleCounting ==
    \A q \in QuestionIds, v \in VoterTokens :
        LET subs == Submissions(q, v)
        IN  ( /\ questions[q].type \in {"multiple_choice", "slider"}
              /\ Cardinality(subs) >= 2
              /\ \A h \in subs :
                    /\ audienceVote[h].pc = "done"
                    /\ VotesBy(audienceVote[h].before.voteEvents, q, v) = 0 )
            => /\ VotesBy(voteEvents, q, v) = 1
               /\ Cardinality({h \in subs :
                      VoteConfirmed \in Range(audienceVote[h].emitted)}) = 1
               /\ \A h \in subs :
                      \/ VoteConfirmed \in Range(audienceVote[h].emitted)
                      \/ audienceVote[h].emitted = <<AlreadyVoted>>

----------------------------------------------------------------------------
(* go_live *)

\* go_live handlers of the session's questions, interleaving at their awaits
NextGoLiveRace ==
    \/ \E c \in ControlHandlerIds, q \in QuestionIds : PollsterControl(c, "go_live", q)
    \/ \E c \in ControlHandlerIds : GoLiveStep(c)

SpecGoLiveRace == Init /\ [][NextGoLiveRace]_vars

\* go_live handlers, each received when the one before it has returned
NextGoLiveSeq ==
    \/ \E q \in QuestionIds : Quiet /\ PollsterControl(1, "go_live", q)
    \/ GoLiveStep(1)

SpecGoLiveSeq == Init /\ [][NextGoLiveSeq]_vars

LiveQuestions(qtable, sessionId) ==
    {id \in DOMAIN qtable : qtable[id].sessionId = sessionId /\ qtable[id].state = "LIVE"}

\* C2: in every reachable state, also while go_live handlers for different
\* questions of the session interleave at their awaits, at most one question
\* of the session is LIVE.
C2_SingleLiveUnderRace == Cardinality(LiveQuestions(questions, "s1")) <= 1

\* C3: when go_live actions run one after the other, each to completion, at
\* most one question of the session is LIVE, in every state on the way: the
\* other LIVE question is closed before the target is marked LIVE.
C3_SingleLiveSequential ==
    \A a, b \in QuestionIds :
        questions[a].state = "LIVE" /\ questions[b].state = "LIVE" => a = b

\* a go_live has completed that found another question LIVE: that one is now
\* CLOSED and the target is LIVE
C3_Witness ==
    /\ pollsterControl[1].pc = "done"
    /\ pollsterControl[1].data.action = "go_live"
    /\ \E other \in QuestionIds :
          /\ other # pollsterControl[1].data.questionId
          /\ pollsterControl[1].before.questions[other].state = "LIVE"
          /\ questions[other].state = "CLOSED"
    /\ questions[pollsterControl[1].data.questionId].state = "LIVE"

----------------------------------------------------------------------------
(* The tally of the votes the server accepts.  The server takes the payload  *)
(* and the segment of a vote as the client sent them: the payloads below are *)
(* the ones the pages of this repository send (the survey page sends         *)
(* optionId for an emoji question), an empty object, and the segments are    *)
(* the two of the join page, none, and one more.                             *)

TallyPayloads == {[optionId |-> 0], [value |-> 50], [emoji |-> "thumbsup"], EmptyObject}
HandshakeSegments == {"room", "", "vip"}

NextTally ==
    \/ Quiet /\ PollsterControl(1, "go_live", "q1")
    \/ ControlGetQuestion(1)
    \/ ControlSwitch(1)
    \/ GoLiveListQuestions(1)
    \/ GoLiveLoop(1)
    \/ GoLiveUpdate(1)
    \/ GoLiveGetVoteTally(1)
    \/ GoLiveEmit(1)
    \/ ResultsGetVoteTally(1)
    \/ ResultsEmit(1)
    \/ ControlReturn(1)
    \/ \E v \in VoterTokens, p \in TallyPayloads, s \in HandshakeSegments :
          Quiet /\ AudienceVote(1, "q1", p, v, s)
    \/ VoteStep(1)
    \/ VoteReturn(1)

SpecTally == Init /\ [][NextTally]_vars

RECURSIVE SumCounts(_)
SumCounts(counts) ==
    IF DOMAIN counts = {} THEN 0
    ELSE LET k == CHOOSE key \in DOMAIN counts : TRUE
         IN counts[k] + SumCounts([key \in DOMAIN counts \ {k} |-> counts[key]])

\* C4: for every question and every vote log that vote submission can
\* produce, the tally getVoteTally returns has total = bySegment.room +
\* bySegment.remote, and for a multiple-choice or emoji question total = the
\* sum of the byOption counts.
C4_TallyConsistent ==
    \A q \in QuestionIds :
        ~TallyThrows(questions, voteEvents, q)
        => LET tally == getVoteTally(questions, voteEvents, q, now)
           IN  /\ tally.total = tally.bySegment.room + tally.bySegment.remote
               /\ questions[q].type \in {"multiple_choice", "emoji"}
                  => tally.total = SumCounts(tally.byOption)

----------------------------------------------------------------------------
(* Freeze and unfreeze of a question, with the audience and a hardware       *)
(* device voting, one request at a time.                                     *)

HardwareBodies ==
    {[sessionCode |-> "CODE1", deviceId |-> "d1", optionIndex |-> 0],
     [sessionCode |-> "CODE1", deviceId |-> "d1", optionIndex |-> 2],
     [sessionCode |-> "CODE9", deviceId |-> "d1", optionIndex |-> 0],
     [sessionCode |-> "CODE1", optionIndex |-> 0]}

NextFreeze ==
    \/ \E a \in {"go_live", "freeze", "unfreeze"} :
          Quiet /\ PollsterControl(1, a, "q1")
    \/ ControlGetQuestion(1)
    \/ ControlSwitch(1)
    \/ GoLiveListQuestions(1)
    \/ GoLiveLoop(1)
    \/ GoLiveUpdate(1)
    \/ GoLiveGetVoteTally(1)
    \/ GoLiveEmit(1)
    \/ FreezeUpdate(1)
    \/ ControlBreak(1)
    \/ ResultsGetVoteTally(1)
    \/ ResultsEmit(1)
    \/ ControlReturn(1)
    \/ \E v \in VoterTokens :
          Quiet /\ AudienceVote(1, "q1", ClientPayload(questions["q1"].type), v, "room")
    \/ VoteStep(1)
    \/ VoteReturn(1)
    \/ \E isActive \in BOOLEAN : Quiet /\ SetSessionActive("s1", isActive)
    \/ \E body \in HardwareBodies : Quiet /\ HardwareVote(body)
    \/ HardwareStep

SpecFreeze == Init /\ [][NextFreeze]_vars

\* the LIVE question the hardware endpoint would find in the tables as they
\* were when the request arrived
HardwareLiveBefore ==
    LET found == getSessionByCode(hardwareVote.before.sessions,
                                  hardwareVote.body.sessionCode)
    IN  IF found = <<>> \/ ~found[1].isActive THEN <<>>
        ELSE FindLive(getQuestionsBySession(hardwareVote.before.questions,
                                            found[1].id))

C6_WitnessHardware ==
    /\ hardwareVote.pc = "done"
    /\ HardwareLiveBefore # <<>>
    /\ HardwareLiveBefore[1].isFrozen
    /\ hardwareVote.response = Response(400, "Voting is frozen for this question")

\* a question that has been frozen and unfrozen took a vote: the row keeps
\* openedAt, so a LIVE question that is not frozen and has a vote and a
\* completed unfreeze in the console's handler
C6_WitnessUnfrozen ==
    /\ pollsterControl[1].pc = "done"
    /\ pollsterControl[1].data.action = "unfreeze"
    /\ pollsterControl[1].before.questions["q1"].isFrozen
    /\ pollsterControl[1].before.questions["q1"].state = "LIVE"
    /\ ~questions["q1"].isFrozen

----------------------------------------------------------------------------
(* A connection joining the session as audience while the console takes      *)
(* questions live and closes them and the audience votes, one message at a   *)
(* time.                                                                     *)

JoinCodes == {"CODE1", "code1", "CODE9"}

NextJoin ==
    \/ \E q \in QuestionIds : Quiet /\ PollsterControl(1, "go_live", q)
    \/ Quiet /\ PollsterControl(1, "close", "q1")
    \/ GoLiveStep(1)
    \/ CloseUpdate(1)
    \/ CloseEmit(1)
    \/ \E v \in VoterTokens :
          Quiet /\ AudienceVote(1, "q1", ClientPayload(questions["q1"].type), v, "room")
    \/ VoteStep(1)
    \/ VoteReturn(1)
    \/ \E code \in JoinCodes : Quiet /\ AudienceJoin("a1", code)
    \/ JoinStep("a1")

SpecJoin == Init /\ [][NextJoin]_vars

\* C11: when audience:join has completed for an existing session, the
\* connection has been sent exactly one event, session:current_question: the
\* LIVE question of the session with the tally of the current vote log, or
\* null when no question is LIVE.  A join with a code of no session gets the
\* error event only and the socket joins no room.
C11_JoinSendsCurrentQuestion ==
    \A s \in SocketIds :
        LET handler == audienceJoin[s]
            known == {id \in DOMAIN sessions :
                         sessions[id].code = ToUpperCase(handler.data.code)}
        IN  handler.pc = "done"
            => IF known = {}
               THEN /\ handler.emitted = <<SessionNotFound>>
                    /\ connections[s].rooms = handler.before.rooms
               ELSE /\ Len(handler.emitted) = 1
                    /\ handler.emitted[1].to = ToSocket
                    /\ handler.emitted[1].event = "session:current_question"
                    /\ \A id \in known :
                          LET live == LiveQuestions(questions, id)
                          IN  /\ live = {}
                                 => handler.emitted[1].payload = NullPayload
                              /\ \A q \in live :
                                    handler.emitted[1].payload
                                      = questions[q] @@
                                        [tally |-> getVoteTally(questions, voteEvents, q, now)]
                              /\ SessionRoom(id) \in connections[s].rooms

\* a join was answered with the LIVE question and a tally that counts a vote
C11_Witness ==
    /\ audienceJoin["a1"].pc = "done"
    /\ LiveQuestions(questions, "s1") = {"q1"}
    /\ VotesOn(voteEvents, "q1") > 0
    /\ Len(audienceJoin["a1"].emitted) = 1
    /\ audienceJoin["a1"].emitted[1].event = "session:current_question"
    /\ audienceJoin["a1"].emitted[1].payload # NullPayload
    /\ audienceJoin["a1"].emitted[1].payload.tally.total > 0

\* C12: a pollster:control message whose action is none of go_live, close,
\* reveal, hide, freeze, unfreeze, reset is answered with an error event to
\* the sender.
C12_UnknownActionRejected ==
    \A c \in ControlHandlerIds :
        LET handler == pollsterControl[c]
        IN  (handler.pc = "done" /\ handler.data.action \notin Actions)
            => \E i \in 1..Len(handler.emitted) :
                  /\ handler.emitted[i].event = "error"
                  /\ handler.emitted[i].to = ToSocket

\* C13: a pollster:control message that names no question, or whose action
\* is none of the seven, leaves every question row and the vote log as they
\* were.
C13_InvalidControlChangesNothing ==
    \A c \in ControlHandlerIds :
        LET handler == pollsterControl[c]
        IN  ( /\ handler.pc # "idle"
              /\ \/ handler.data.questionId \notin DOMAIN handler.before.questions
                 \/ handler.data.action \notin Actions )
            => /\ questions = handler.before.questions
               /\ voteEvents = handler.before.voteEvents
               /\ handler.pc \notin {"threw"}

\* an unknown action for a LIVE question that has a vote ran to its end
C13_Witness ==
    /\ pollsterControl[1].pc = "done"
    /\ pollsterControl[1].data.action = UnknownAction
    /\ pollsterControl[1].data.questionId = "q1"
    /\ questions["q1"].state = "LIVE"
    /\ VotesOn(voteEvents, "q1") > 0

\* a message for a question id of no row ran to its end
C13_WitnessUnknownQuestion ==
    /\ pollsterControl[1].pc = "done"
    /\ pollsterControl[1].data.questionId = UnknownQuestionId
    /\ pollsterControl[1].data.action = "reset"
    /\ Len(voteEvents) > 0

----------------------------------------------------------------------------
(* Time passing while a question is taken live and the audience votes, one   *)
(* message at a time: votes leave the trailing window of the rate.           *)

NextRate ==
    \/ Quiet /\ PollsterControl(1, "go_live", "q1")
    \/ ControlGetQuestion(1)
    \/ ControlSwitch(1)
    \/ GoLiveListQuestions(1)
    \/ GoLiveLoop(1)
    \/ GoLiveUpdate(1)
    \/ GoLiveGetVoteTally(1)
    \/ GoLiveEmit(1)
    \/ ResultsGetVoteTally(1)
    \/ ResultsEmit(1)
    \/ ControlReturn(1)
    \/ \E v \in VoterTokens :
          Quiet /\ AudienceVote(1, "q1", ClientPayload(questions["q1"].type), v, "room")
    \/ VoteStep(1)
    \/ VoteReturn(1)
    \/ Tick

SpecRate == Init /\ [][NextRate]_vars

\* the tally an event of a handler carries
TallySent(handler, event) ==
    LET i == CHOOSE i \in 1..Len(handler.emitted) : handler.emitted[i].event = event
    IN handler.emitted[i].payload.tally

Without(record, field) == [f \in DOMAIN record \ {field} |-> record[f]]

\* C14 (as claimed): the two tallies a go_live computes, for
\* session:current_question and for session:results, with no vote inserted
\* or deleted between the two calls, are identical in every field.
C14_TallyRepeatable ==
    \A c \in ControlHandlerIds :
        LET handler == pollsterControl[c]
        IN  ( /\ handler.pc = "done"
              /\ handler.data.action = "go_live"
              /\ Sent(handler, "session:current_question")
              /\ Sent(handler, "session:results")
              /\ voteEvents = handler.before.voteEvents )
            => TallySent(handler, "session:current_question")
                 = TallySent(handler, "session:results")

\* C14 (amended): the two tallies are identical in every field but
\* votesPerSecond, which is computed from the clock at the call.
C14_TallyRepeatableButRate ==
    \A c \in ControlHandlerIds :
        LET handler == pollsterControl[c]
        IN  ( /\ handler.pc = "done"
              /\ handler.data.action = "go_live"
              /\ Sent(handler, "session:current_question")
              /\ Sent(handler, "session:results")
              /\ voteEvents = handler.before.voteEvents )
            => Without(TallySent(handler, "session:current_question"), "votesPerSecond")
                 = Without(TallySent(handler, "session:results"), "votesPerSecond")

\* a go_live of a question with votes sent two tallies whose rates differ
C14_Witness ==
    LET handler == pollsterControl[1]
    IN  /\ handler.pc = "done"
        /\ handler.data.action = "go_live"
        /\ Sent(handler, "session:current_question")
        /\ Sent(handler, "session:results")
        /\ TallySent(handler, "session:results").total > 0
        /\ TallySent(handler, "session:current_question").votesPerSecond
             # TallySent(handler, "session:results").votesPerSecond

\* C17: votesPerSecond of a question is the number of its Vote Events with
\* createdAt later than now - 10 seconds, over 10; a Vote Event stops
\* counting when the window has moved past it.
C17_RateOfTrailingWindow ==
    \A q \in QuestionIds :
        LET inWindow == {i \in 1..Len(voteEvents) :
                            /\ voteEvents[i].questionId = q
                            /\ voteEvents[i].createdAt + 10 > now}
            rate == getVoteTally(questions, voteEvents, q, now).votesPerSecond
        IN  /\ rate.num = Cardinality(inWindow)
            /\ rate.den = 10
            /\ \A h \in VoteHandlerIds :
                  (audienceVote[h].pc = "done" /\ Sent(audienceVote[h], "session:results"))
                  => LET sent == TallySent(audienceVote[h], "session:results")
                     IN  /\ sent.votesPerSecond.den = 10
                         /\ sent.votesPerSecond.num <= sent.total

\* of two votes of the question one has left the window and one is in it;
\* the older one was cast exactly 10 seconds ago
C17_Witness ==
    /\ Len(voteEvents) = 2
    /\ voteEvents[1].createdAt + 10 = now
    /\ voteEvents[2].createdAt + 10 > now
    /\ getVoteTally(questions, voteEvents, "q1", now).votesPerSecond.num = 1
    /\ audienceVote[1].pc = "done"
    /\ Sent(audienceVote[1], "session:results")
    /\ TallySent(audienceVote[1], "session:results").total = 2

\* C15: when a pollster:control action has changed the state, isRevealed or
\* isFrozen of a question, the forced close of the question that was LIVE
\* during the go_live of another included, a session:question_state event
\* with the id of that question and its new state and flags has been sent to
\* the room of the session.
C15_EveryChangeBroadcast ==
    \A c \in ControlHandlerIds :
        LET handler == pollsterControl[c]
        IN  handler.pc = "done"
            => \A q \in QuestionIds :
                  ( \/ questions[q].state # handler.before.questions[q].state
                    \/ questions[q].isRevealed # handler.before.questions[q].isRevealed
                    \/ questions[q].isFrozen # handler.before.questions[q].isFrozen )
                  => \E i \in 1..Len(handler.emitted) :
                        handler.emitted[i]
                          = QuestionState(questions[q].sessionId, q, questions[q])

\* C16: a rejected audience:vote sends the submitter exactly one error event
\* and no vote:confirmed.  The error is 'Cannot vote on this question'
\* whenever the question is absent, not LIVE or frozen, also for a voter who
\* has voted, and 'Already voted' only when the question is votable and the
\* voter has a Vote Event on it.
C16_OneSpecificError ==
    \A h \in VoteHandlerIds :
        LET handler == audienceVote[h]
            q == handler.data.questionId
            prior == VotesBy(handler.before.voteEvents, q, handler.data.voterToken) > 0
            errors == {i \in 1..Len(handler.emitted) : handler.emitted[i].event = "error"}
        IN  handler.pc = "done"
            => /\ ~VotableBefore(handler)
                  => handler.emitted = <<ErrorEvent("Cannot vote on this question")>>
               /\ (VotableBefore(handler) /\ prior)
                  => handler.emitted = <<ErrorEvent("Already voted")>>
               /\ errors # {}
                  => /\ Cardinality(errors) = 1
                     /\ ~Sent(handler, "vote:confirmed")
                     /\ handler.emitted[1].to = ToSocket
                     /\ (handler.emitted[1].payload.message = "Already voted")
                          <=> (VotableBefore(handler) /\ prior)

\* the vote of a voter who has voted, for a question since closed, was
\* answered with the not-votable error
C16_Witness ==
    LET handler == audienceVote[1]
    IN  /\ handler.pc = "done"
        /\ handler.data.questionId = "q1"
        /\ handler.before.questions["q1"].state = "CLOSED"
        /\ VotesBy(handler.before.voteEvents, "q1", handler.data.voterToken) > 0
        /\ handler.emitted = <<ErrorEvent("Cannot vote on this question")>>

\* the same for a question that is LIVE and frozen
C16_WitnessFrozen ==
    LET handler == audienceVote[1]
    IN  /\ handler.pc = "done"
        /\ handler.data.questionId = "q1"
        /\ handler.before.questions["q1"].state = "LIVE"
        /\ handler.before.questions["q1"].isFrozen
        /\ VotesBy(handler.before.voteEvents, "q1", handler.data.voterToken) > 0
        /\ handler.emitted = <<ErrorEvent("Cannot vote on this question")>>

----------------------------------------------------------------------------
(* The vote log under every operation: console actions, votes of the        *)
(* audience page and of the survey page, joins, and the deletion of a       *)
(* question and of the session, one request at a time.                      *)

SurveyBodies ==
    {[surveyId |-> "c1", questionId |-> q, payload |-> [optionId |-> 0],
      voterToken |-> v] : q \in QuestionIds, v \in {"v1"}}

NextLog ==
    \/ \E a \in {"go_live", "close", "freeze", "reveal", "reset"} :
          Quiet /\ PollsterControl(1, a, "q1")
    \/ Quiet /\ PollsterControl(1, "go_live", "q2")
    \/ ControlStep(1)
    \/ \E v \in VoterTokens :
          Quiet /\ AudienceVote(1, "q1", [optionId |-> 0], v, "room")
    \/ VoteStep(1)
    \/ VoteReturn(1)
    \/ Quiet /\ SetSessionActive("s1", TRUE)
    \/ Quiet /\ SurveyStart("s1")
    \/ \E body \in SurveyBodies : Quiet /\ SurveyVote("s1", body)
    \/ SurveyStep
    \/ Quiet /\ AudienceJoin("a1", "CODE1")
    \/ JoinStep("a1")
    \/ \E owner \in BOOLEAN : Quiet /\ DeleteQuestion("s1", "q1", owner)
    \/ \E owner \in BOOLEAN : Quiet /\ DeleteSession("s1", owner)
    \/ AdminStep

SpecLog == Init /\ [][NextLog]_vars

\* the step is the delete statement of a reset of question q
ResetDeleting(q) ==
    \E c \in ControlHandlerIds :
        /\ pollsterControl[c].pc = "resetDelete"
        /\ pollsterControl[c].data.action = "reset"
        /\ pollsterControl[c].data.questionId = q
        /\ pollsterControl'[c].pc # "resetDelete"

\* the step is the first statement of the deletion of question q
QuestionDeleting(q) ==
    /\ adminRequest.pc = "deleteQuestionVotes"
    /\ adminRequest.request.questionId = q
    /\ adminRequest'.pc # "deleteQuestionVotes"

\* the step is the vote statement of the deletion of session s
SessionDeleting(s) ==
    /\ adminRequest.pc = "deleteSessionVotes"
    /\ adminRequest.request.sessionId = s
    /\ adminRequest'.pc # "deleteSessionVotes"

\* C18: a step leaves the vote log as it is, or appends one Vote Event to
\* it, or is the delete of a reset of a question Q or of the deletion of Q
\* and removes the Vote Events of Q and no other, or is the delete of the
\* deletion of a session and removes the Vote Events of that session and no
\* other; the Vote Events that stay are unchanged and in the same order.  No
\* step of a vote submission, of another lifecycle action or of a join
\* removes or alters a Vote Event.
C18_LogAppendOnly ==
    [][ \/ voteEvents' = voteEvents
        \/ /\ Len(voteEvents') = Len(voteEvents) + 1
           /\ SubSeq(voteEvents', 1, Len(voteEvents)) = voteEvents
        \/ \E q \in QuestionIds :
              /\ ResetDeleting(q) \/ QuestionDeleting(q)
              /\ voteEvents' = SelectSeq(voteEvents, LAMBDA v : v.questionId # q)
        \/ \E s \in SessionIds :
              /\ SessionDeleting(s)
              /\ voteEvents' = SelectSeq(voteEvents, LAMBDA v : v.sessionId # s)
      ]_vars

\* a reset of q1 has removed the votes of q1 and left a vote of q2
C18_Witness ==
    /\ pollsterControl[1].pc = "resetUpdate"
    /\ pollsterControl[1].data.questionId = "q1"
    /\ VotesOn(pollsterControl[1].before.voteEvents, "q1") > 0
    /\ VotesOn(voteEvents, "q1") = 0
    /\ VotesOn(voteEvents, "q2") > 0

\* the deletion of q1 has removed the votes of q1 and left a vote of q2
C18_WitnessDeleteQuestion ==
    /\ adminRequest.pc = "deleteQuestionRow"
    /\ VotesOn(adminRequest.before.voteEvents, "q1") > 0
    /\ VotesOn(voteEvents, "q1") = 0
    /\ VotesOn(voteEvents, "q2") > 0

\* the deletion of the session has removed its votes
C18_WitnessDeleteSession ==
    /\ adminRequest.pc = "deleteSessionQuestions"
    /\ Len(adminRequest.before.voteEvents) > 0
    /\ voteEvents = <<>>

\* the question a handler read was LIVE and not frozen, and its hasVoted
\* call answered false
ChecksPassed(handler) ==
    /\ handler.question # <<>>
    /\ handler.question[1].state = "LIVE"
    /\ ~handler.question[1].isFrozen
    /\ ~handler.hasVoted

\* C19: a step that appends a Vote Event is the insert of a vote submission
\* (an audience:vote message, a request to the survey vote endpoint; the
\* hardware endpoint has no step that inserts) whose handler has, before the
\* insert, read the question as LIVE and not frozen and has been told by
\* hasVoted that the voter has no vote on the question.
C19_InsertAfterBothChecks ==
    [][ Len(voteEvents') > Len(voteEvents) =>
          \/ \E h \in VoteHandlerIds :
                /\ audienceVote[h].pc = "createVoteEvent"
                /\ audienceVote'[h].pc = "createdVoteEvent"
                /\ ChecksPassed(audienceVote[h])
          \/ /\ surveyVote.pc = "createVoteEvent"
             /\ surveyVote'.pc = "updateSurveyProgress"
             /\ ChecksPassed(surveyVote)
      ]_vars

\* the survey endpoint has recorded a vote for a question that is not LIVE
C19_WitnessSurveyNotLive ==
    /\ surveyVote.pc = "updateSurveyProgress"
    /\ surveyVote.question[1].state # "LIVE"
    /\ Len(voteEvents) = Len(surveyVote.before.voteEvents) + 1

\* the survey endpoint has recorded a vote for a LIVE question that is frozen
C19_WitnessSurveyFrozen ==
    /\ surveyVote.pc = "updateSurveyProgress"
    /\ surveyVote.question[1].state = "LIVE"
    /\ surveyVote.question[1].isFrozen
    /\ Len(voteEvents) = Len(surveyVote.before.voteEvents) + 1

\* the duplicate check of the survey endpoint: a step that appends a Vote
\* Event for a survey request follows a hasVoted call that answered false
C19_SurveyInsertAfterDuplicateCheck ==
    [][ (Len(voteEvents') > Len(voteEvents) /\ surveyVote.pc = "createVoteEvent")
          => ~surveyVote.hasVoted ]_vars

\* a request that the hardware endpoint can serve: all fields, the code of
\* an active session with a LIVE question that is not frozen, an option of
\* that question
HardwareValidBefore ==
    /\ Has(hardwareVote.body, "sessionCode")
    /\ Has(hardwareVote.body, "deviceId")
    /\ Has(hardwareVote.body, "optionIndex")
    /\ HardwareLiveBefore # <<>>
    /\ ~HardwareLiveBefore[1].isFrozen
    /\ hardwareVote.body.optionIndex >= 0
    /\ hardwareVote.body.optionIndex < Len(HardwareLiveBefore[1].optionsJson)

\* C20: a device has at most one Vote Event per question, and when a valid
\* request of a device that has no vote on the LIVE question has been
\* answered, the answer is success and the log holds one Vote Event of the
\* device for the question; a request of a device that has one is answered
\* with an error and adds none.
C20_HardwareVoteOnce ==
    hardwareVote.pc = "done" /\ HardwareValidBefore =>
        LET q == HardwareLiveBefore[1].id
            hash == HardwareTokenHash(hardwareVote.body.deviceId)
        IN  /\ VotesBy(voteEvents, q, hash) <= 1
            /\ IF VotesBy(hardwareVote.before.voteEvents, q, hash) = 0
               THEN /\ hardwareVote.response.status = 200
                    /\ VotesBy(voteEvents, q, hash) = 1
               ELSE /\ hardwareVote.response.status >= 400
                    /\ voteEvents = hardwareVote.before.voteEvents

\* a valid first request of a device was answered with 500 and no Vote Event
C20_WitnessFailed ==
    /\ hardwareVote.pc = "done"
    /\ HardwareValidBefore
    /\ hardwareVote.response = Response(500, "Failed to record vote")
    /\ voteEvents = hardwareVote.before.voteEvents

----------------------------------------------------------------------------
(* The lifecycle actions of the console, one message at a time *)

\* the handler of a control message has run to its end
Completed(handler, action) ==
    /\ handler.pc = "done"
    /\ handler.data.action = action
    /\ handler.question # <<>>

\* C21: when a go_live of a question Q has completed, Q is LIVE, its
\* openedAt is stamped and its closedAt is NULL, and the handler has sent to
\* the room of Q's session a session:current_question event whose payload is
\* the row of Q together with the tally of Q.
C21_GoLivePostcondition ==
    \A c \in ControlHandlerIds :
        LET handler == pollsterControl[c]
            q == handler.data.questionId
        IN  Completed(handler, "go_live") =>
              /\ questions[q].state = "LIVE"
              /\ questions[q].openedAt # Null
              /\ questions[q].closedAt = Null
              /\ \E i \in 1..Len(handler.emitted) :
                    handler.emitted[i] =
                      CurrentQuestion(questions[q].sessionId,
                          questions[q] @@
                            [tally |-> getVoteTally(questions, voteEvents, q, now)])

\* a go_live of a question that was CLOSED and has a vote has completed
C21_Witness ==
    LET handler == pollsterControl[1]
    IN  /\ Completed(handler, "go_live")
        /\ handler.data.questionId = "q1"
        /\ handler.before.questions["q1"].state = "CLOSED"
        /\ handler.before.questions["q1"].closedAt # Null
        /\ VotesOn(voteEvents, "q1") > 0

\* the handler of a control message for a question that exists has ended,
\* by returning or by throwing
Ended(handler, actions) ==
    /\ handler.pc \in {"done", "threw"}
    /\ handler.data.action \in actions
    /\ handler.question # <<>>

SentCurrentQuestion(handler) ==
    {i \in 1..Len(handler.emitted) :
        handler.emitted[i].event = "session:current_question"}

\* what C22 says of a reveal or hide handler, for the tables as they are
\* when it has ended
RevealHideEffect(handler) ==
    LET q == handler.data.questionId
        was == handler.before.questions
    IN  /\ questions =
              [was EXCEPT ![q].isRevealed = (handler.data.action = "reveal")]
        /\ voteEvents = handler.before.voteEvents
        /\ IF was[q].state = "LIVE"
           THEN SentCurrentQuestion(handler) = {}
           ELSE \E i \in 1..Len(handler.emitted) :
                   handler.emitted[i] =
                     CurrentQuestion(was[q].sessionId,
                        IF handler.data.action = "hide" THEN NullPayload
                        ELSE questions[q] @@
                               [tally |-> getVoteTally(questions, voteEvents, q, now)])

\* The console, and the audience page of any client: the segment of the
\* handshake is what the client put there.
NextReveal ==
    \/ \E a \in {"go_live", "close", "reveal", "hide"} :
          Quiet /\ PollsterControl(1, a, "q1")
    \/ ControlGetQuestion(1)
    \/ ControlSwitch(1)
    \/ GoLiveListQuestions(1)
    \/ GoLiveLoop(1)
    \/ GoLiveUpdate(1)
    \/ GoLiveGetVoteTally(1)
    \/ GoLiveEmit(1)
    \/ CloseUpdate(1)
    \/ CloseEmit(1)
    \/ RevealUpdate(1)
    \/ RevealCheck(1)
    \/ RevealGetVoteTally(1)
    \/ RevealEmit(1)
    \/ ResultsGetVoteTally(1)
    \/ ResultsEmit(1)
    \/ ControlReturn(1)
    \/ \E v \in VoterTokens, segment \in {"room", "vip"} :
          Quiet /\ AudienceVote(1, "q1", ClientPayload(questions["q1"].type), v, segment)
    \/ VoteStep(1)
    \/ VoteReturn(1)

SpecReveal == Init /\ [][NextReveal]_vars

\* C22: when the handler of a reveal or hide of a question has ended, only
\* isRevealed of that question has changed; if the question is CLOSED or
\* DRAFT the handler has broadcast session:current_question to the session
\* room, with the question and its tally for reveal and with null for hide;
\* if the question is LIVE it has sent no session:current_question.
C22_RevealHideBroadcast ==
    \A c \in ControlHandlerIds :
        Ended(pollsterControl[c], {"reveal", "hide"})
            => RevealHideEffect(pollsterControl[c])

\* the same of the handlers that returned: a reveal whose getVoteTally threw
\* is left out
C22_RevealHideWhenCompleted ==
    \A c \in ControlHandlerIds :
        (Completed(pollsterControl[c], "reveal") \/ Completed(pollsterControl[c], "hide"))
            => RevealHideEffect(pollsterControl[c])

\* a reveal of a CLOSED question with a vote has completed
C22_Witness ==
    /\ Completed(pollsterControl[1], "reveal")
    /\ pollsterControl[1].before.questions["q1"].state = "CLOSED"
    /\ VotesOn(voteEvents, "q1") > 0

\* a reveal of a CLOSED question has thrown in getVoteTally
C22_WitnessThrew ==
    /\ Ended(pollsterControl[1], {"reveal"})
    /\ pollsterControl[1].pc = "threw"
    /\ pollsterControl[1].before.questions["q1"].state = "CLOSED"
    /\ questions["q1"].isRevealed
    /\ pollsterControl[1].emitted = <<>>

\* C23: a step that makes a question LIVE is the update of a go_live of that
\* question, and the question is in DRAFT before the step: a CLOSED question
\* is not made LIVE by go_live.
C23_LiveOnlyFromDraft ==
    [][ \A q \in QuestionIds :
          (questions[q].state # "LIVE" /\ questions'[q].state = "LIVE") =>
             /\ questions[q].state = "DRAFT"
             /\ \E c \in ControlHandlerIds :
                   /\ pollsterControl[c].pc = "goLive"
                   /\ pollsterControl[c].data.action = "go_live"
                   /\ pollsterControl[c].data.questionId = q
      ]_vars

\* a go_live has made a CLOSED question LIVE with the votes it had
C23_WitnessClosedToLive ==
    /\ Completed(pollsterControl[1], "go_live")
    /\ pollsterControl[1].data.questionId = "q1"
    /\ pollsterControl[1].before.questions["q1"].state = "CLOSED"
    /\ questions["q1"].state = "LIVE"
    /\ voteEvents = pollsterControl[1].before.voteEvents
    /\ VotesOn(voteEvents, "q1") > 0

\* C24: when a freeze or unfreeze of a question that was DRAFT or CLOSED has
\* completed, isFrozen of the question is what it was; of a question that
\* was LIVE it is true after freeze and false after unfreeze.
C24_FreezeOnlyWhenLive ==
    \A c \in ControlHandlerIds :
        LET handler == pollsterControl[c]
            q == handler.data.questionId
        IN  (Completed(handler, "freeze") \/ Completed(handler, "unfreeze")) =>
              IF handler.before.questions[q].state = "LIVE"
              THEN questions[q].isFrozen = (handler.data.action = "freeze")
              ELSE questions[q].isFrozen = handler.before.questions[q].isFrozen

\* a freeze has set isFrozen of a DRAFT question
C24_WitnessDraftFrozen ==
    /\ Completed(pollsterControl[1], "freeze")
    /\ pollsterControl[1].data.questionId = "q1"
    /\ pollsterControl[1].before.questions["q1"].state = "DRAFT"
    /\ ~pollsterControl[1].before.questions["q1"].isFrozen
    /\ questions["q1"].isFrozen

\* C25: when a reset of a question that was LIVE has completed, the vote log
\* and the questions are what they were when the message arrived; a reset of
\* a CLOSED or DRAFT question has deleted the votes of the question and left
\* it in DRAFT.
C25_ResetSparesLive ==
    \A c \in ControlHandlerIds :
        LET handler == pollsterControl[c]
            q == handler.data.questionId
        IN  Completed(handler, "reset") =>
              IF handler.before.questions[q].state = "LIVE"
              THEN /\ voteEvents = handler.before.voteEvents
                   /\ questions = handler.before.questions
              ELSE /\ VotesOn(voteEvents, q) = 0
                   /\ questions[q].state = "DRAFT"

\* a reset has deleted the votes of a LIVE question and put it in DRAFT
C25_WitnessLiveWiped ==
    /\ Completed(pollsterControl[1], "reset")
    /\ pollsterControl[1].data.questionId = "q1"
    /\ pollsterControl[1].before.questions["q1"].state = "LIVE"
    /\ VotesOn(pollsterControl[1].before.voteEvents, "q1") > 0
    /\ VotesOn(voteEvents, "q1") = 0
    /\ questions["q1"].state = "DRAFT"

\* the step is the update of a control handler at `pc`, for question q
ControlUpdating(pc, actions, q) ==
    \E c \in ControlHandlerIds :
        /\ pollsterControl[c].pc = pc
        /\ pollsterControl[c].data.action \in actions
        /\ pollsterControl[c].data.questionId = q

\* C26: a step changes isRevealed or isFrozen of a question only if it is
\* the update of a reveal or hide of the question, which changes isRevealed
\* and nothing else of the row, or the update of a freeze or unfreeze, which
\* changes isFrozen and nothing else, or the update of a reset, which leaves
\* both false.  Every other step, the updates of go_live and close and the
\* forced close of go_live among them, leaves both flags of every question
\* as they are.
C26_FlagsIndependent ==
    [][ \A q \in QuestionIds :
          LET row == questions[q]
              after == questions'[q]
          IN  (after.isRevealed # row.isRevealed \/ after.isFrozen # row.isFrozen) =>
                \/ /\ ControlUpdating("revealed", {"reveal", "hide"}, q)
                   /\ after = [row EXCEPT !.isRevealed = after.isRevealed]
                \/ /\ ControlUpdating("frozen", {"freeze", "unfreeze"}, q)
                   /\ after = [row EXCEPT !.isFrozen = after.isFrozen]
                \/ /\ ControlUpdating("resetUpdate", {"reset"}, q)
                   /\ ~after.isRevealed
                   /\ ~after.isFrozen
      ]_vars

\* a close of a LIVE question that is revealed and frozen has completed and
\* the question is CLOSED, revealed and frozen
C26_Witness ==
    LET handler == pollsterControl[1]
    IN  /\ Completed(handler, "close")
        /\ handler.data.questionId = "q1"
        /\ handler.before.questions["q1"].state = "LIVE"
        /\ handler.before.questions["q1"].isRevealed
        /\ handler.before.questions["q1"].isFrozen
        /\ questions["q1"].state = "CLOSED"
        /\ questions["q1"].isRevealed
        /\ questions["q1"].isFrozen

\* the go_live of q2 has closed q1, which is still revealed and frozen
C26_WitnessForcedClose ==
    LET handler == pollsterControl[1]
    IN  /\ Completed(handler, "go_live")
        /\ handler.data.questionId = "q2"
        /\ handler.before.questions["q1"].state = "LIVE"
        /\ questions["q1"].state = "CLOSED"
        /\ questions["q1"].isRevealed
        /\ questions["q1"].isFrozen

----------------------------------------------------------------------------
(* Two sessions with one question each, both questions LIVE at a time, and  *)
(* two audience:vote handlers that interleave, one per question.            *)

\* q1 is the question of session s1 and q2 the question of session s2
InitParallel ==
    /\ sessions = [id \in {"s1", "s2"} |-> NewSession(id)]
    /\ hardwareVote = IdleHardware
    /\ \E type \in QuestionTypes :
          questions = [id \in QuestionIds |->
                         IF id = "q1" THEN NewQuestion(id, type)
                         ELSE [NewQuestion(id, "multiple_choice") EXCEPT
                                  !.sessionId = "s2"]]
    /\ voteEvents = <<>>
    /\ now = 1
    /\ audienceVote = [h \in VoteHandlerIds |-> IdleVote]
    /\ pollsterControl = [c \in ControlHandlerIds |-> IdleControl]
    /\ connections = [s \in SocketIds |-> NewConnection]
    /\ sessionRooms = [id \in {} |-> {}]
    /\ pollsterRooms = [id \in {} |-> {}]
    /\ pollsterJoin = [s \in SocketIds |-> IdleJoin]
    /\ audienceJoin = [s \in SocketIds |-> IdleJoin]
    /\ surveyCompletions = [id \in {} |-> EmptyObject]
    /\ surveyVote = IdleSurvey
    /\ adminRequest = IdleAdmin

\* the question that handler h of this specification votes on
QuestionOf(h) == IF h = 1 THEN "q1" ELSE "q2"

\* no control message is being handled
ConsoleQuiet == \A c \in ControlHandlerIds : pollsterControl[c].pc = "idle"

NextParallel ==
    \/ \E q \in QuestionIds, a \in {"go_live", "close"} :
          Quiet /\ PollsterControl(1, a, q)
    \/ ControlGetQuestion(1)
    \/ ControlSwitch(1)
    \/ GoLiveListQuestions(1)
    \/ GoLiveLoop(1)
    \/ GoLiveUpdate(1)
    \/ GoLiveGetVoteTally(1)
    \/ GoLiveEmit(1)
    \/ CloseUpdate(1)
    \/ CloseEmit(1)
    \/ ResultsGetVoteTally(1)
    \/ ResultsEmit(1)
    \/ ControlReturn(1)
    \/ \E h \in {1, 2}, v \in VoterTokens :
          /\ ConsoleQuiet
          /\ AudienceVote(h, QuestionOf(h),
                          ClientPayload(questions[QuestionOf(h)].type), v, "room")
    \/ \E h \in {1, 2} : VoteStep(h)
    \/ \E h \in {1, 2} : VoteReturn(h)

SpecParallel == InitParallel /\ [][NextParallel]_vars

\* the rows of other questions than q
VotesElsewhere(events, q) == SelectSeq(events, LAMBDA v : v.questionId # q)

\* C27, the frame: a step of an audience:vote handler for a question Q
\* leaves every question row as it is, and leaves the Vote Events and the
\* tally of every other question as they are.
C27_VoteLeavesOtherQuestions ==
    [][ \A h \in VoteHandlerIds :
          audienceVote'[h] # audienceVote[h] /\ audienceVote[h].pc # "idle" =>
             LET q == audienceVote[h].data.questionId
             IN  /\ questions' = questions
                 /\ VotesElsewhere(voteEvents', q) = VotesElsewhere(voteEvents, q)
                 /\ \A other \in QuestionIds \ {q} :
                       getVoteTally(questions', voteEvents', other, now')
                         = getVoteTally(questions, voteEvents, other, now)
      ]_vars

\* C27, votes in parallel: a handler that has a vote for its question in
\* hand can take its next step whatever the handler of the other question
\* is doing, and when it has ended it has confirmed the vote exactly if its
\* question was LIVE and not frozen and its voter had no vote on it when the
\* message arrived, whether or not a vote for the other question was in
\* flight or was recorded meanwhile.
C27_VotesInParallel ==
    \A h \in {1, 2} :
        LET handler == audienceVote[h]
        IN  /\ handler.pc # "idle" => ENABLED (VoteStep(h) \/ VoteReturn(h))
            /\ handler.pc = "done" =>
                 (Sent(handler, "vote:confirmed")
                    <=> /\ VotableBefore(handler)
                        /\ VotesBy(handler.before.voteEvents, handler.data.questionId,
                                   handler.data.voterToken) = 0)

\* C27: a vote submission on a question changes nothing of another question
\* (C27_VoteLeavesOtherQuestions), and votes on different questions proceed
\* in parallel: none is rejected or held up because of the other
\* (C27_VotesInParallel).
C27_QuestionsIndependent ==
    C27_VoteLeavesOtherQuestions /\ []C27_VotesInParallel

\* a vote for q2 was recorded and confirmed while a vote of the same voter
\* for q1, received earlier, was recorded and is still being handled
C27_Witness ==
    /\ audienceVote[2].pc = "done"
    /\ Sent(audienceVote[2], "vote:confirmed")
    /\ audienceVote[1].pc = "getVoteTally"
    /\ audienceVote[1].data.voterToken = audienceVote[2].data.voterToken
    /\ VotesOn(audienceVote[2].before.voteEvents, "q1") = 0
    /\ VotesOn(voteEvents, "q1") = 1
    /\ VotesOn(voteEvents, "q2") = 1

----------------------------------------------------------------------------
(* Votes to their broadcast: every handler that has started is run on by    *)
(* the event loop, its storage calls return or throw.                       *)

NextResults ==
    \/ Quiet /\ PollsterControl(1, "go_live", "q1")
    \/ ControlGetQuestion(1)
    \/ ControlSwitch(1)
    \/ GoLiveListQuestions(1)
    \/ GoLiveLoop(1)
    \/ GoLiveUpdate(1)
    \/ GoLiveGetVoteTally(1)
    \/ GoLiveEmit(1)
    \/ ResultsGetVoteTally(1)
    \/ ResultsEmit(1)
    \/ ControlReturn(1)
    \/ \E v \in VoterTokens, segment \in {"room", "vip"} :
          Quiet /\ AudienceVote(1, "q1", ClientPayload(questions["q1"].type), v, segment)
    \/ VoteStep(1)
    \/ VoteReturn(1)

SpecResults ==
    /\ Init
    /\ [][NextResults]_vars
    /\ WF_vars(VoteStep(1))
    /\ WF_vars(VoteReturn(1))
    /\ WF_vars(ControlStep(1))
    /\ WF_vars(ControlReturn(1))

\* the handler has inserted the Vote Event of its message
VoteAccepted(h) == audienceVote[h].pc = "createdVoteEvent"

\* the handler has broadcast session:results for its question, to the room
\* of the question's session, with a tally that counts the votes in the log
ResultsBroadcast(h) ==
    LET handler == audienceVote[h]
        q == handler.data.questionId
    IN  /\ handler.pc = "done"
        /\ \E i \in 1..Len(handler.emitted) :
              /\ handler.emitted[i].event = "session:results"
              /\ handler.emitted[i].to = SessionRoom(questions[q].sessionId)
              /\ handler.emitted[i].payload.questionId = q
              /\ handler.emitted[i].payload.tally.total = VotesOn(voteEvents, q)
              /\ handler.emitted[i].payload.tally.total >= 1

\* C28: an audience:vote whose Vote Event has been inserted is eventually
\* followed by a session:results broadcast to the room of the question's
\* session, with a tally that counts the vote (no reset or deletion happens
\* while a vote is handled in this specification).
C28_AcceptedVoteBroadcast ==
    VoteAccepted(1) ~> ResultsBroadcast(1)

\* the same, but for the votes whose tally computation throws
C28_BroadcastUnlessTallyThrows ==
    VoteAccepted(1) ~> (ResultsBroadcast(1) \/ audienceVote[1].pc = "threw")

\* a vote was inserted and confirmed, and the handler ended in the throw of
\* getVoteTally with no session:results sent
C28_WitnessThrew ==
    /\ audienceVote[1].pc = "threw"
    /\ Sent(audienceVote[1], "vote:confirmed")
    /\ ~Sent(audienceVote[1], "session:results")
    /\ VotesOn(voteEvents, "q1") = VotesOn(audienceVote[1].before.voteEvents, "q1") + 1

----------------------------------------------------------------------------
(* The tally of a question by option *)

OptionPayloads == {[optionId |-> 0], [optionId |-> 1], EmptyObject}

NextOptions ==
    \/ Quiet /\ PollsterControl(1, "go_live", "q1")
    \/ ControlGetQuestion(1)
    \/ ControlSwitch(1)
    \/ GoLiveListQuestions(1)
    \/ GoLiveLoop(1)
    \/ GoLiveUpdate(1)
    \/ GoLiveGetVoteTally(1)
    \/ GoLiveEmit(1)
    \/ ResultsGetVoteTally(1)
    \/ ResultsEmit(1)
    \/ ControlReturn(1)
    \/ \E v \in VoterTokens, p \in OptionPayloads, s \in {"room", "remote"} :
          Quiet /\ AudienceVote(1, "q1", p, v, s)
    \/ VoteStep(1)
    \/ VoteReturn(1)

SpecOptions == Init /\ [][NextOptions]_vars

\* a vote handler has broadcast the tally of a multiple-choice question
BroadcastMultipleChoice(handler) ==
    /\ handler.pc = "done"
    /\ Sent(handler, "session:results")
    /\ questions[handler.data.questionId].type = "multiple_choice"

\* the votes of question q for option index i
VotesForOption(events, q, i) ==
    CountWhere(events, LAMBDA v : /\ v.questionId = q
                                  /\ Has(v.payloadJson, "optionId")
                                  /\ v.payloadJson.optionId = i)

\* C29 as claimed: the byOption map of the tally of a multiple-choice
\* question has an entry for every option of the question, keyed by the
\* option index as a string, with the count of the votes for the option, 0
\* for an option without vote.
C29_ByOptionOfEveryOption ==
    \A h \in VoteHandlerIds :
        LET handler == audienceVote[h]
            q == handler.data.questionId
        IN  BroadcastMultipleChoice(handler) =>
              /\ DOMAIN handler.tally.byOption =
                    {ToString(i) : i \in 0..(Len(questions[q].optionsJson) - 1)}
              /\ \A i \in 0..(Len(questions[q].optionsJson) - 1) :
                    handler.tally.byOption[ToString(i)] = VotesForOption(voteEvents, q, i)

\* C29 as the code has it: the byOption map of the tally of a
\* multiple-choice question has an entry for exactly the option indexes that
\* a Vote Event of the question carries, keyed by the index as a string,
\* with the count of the votes that carry it; an option without vote has no
\* entry.
C29_ByOptionOfVotedOptions ==
    \A h \in VoteHandlerIds :
        LET handler == audienceVote[h]
            q == handler.data.questionId
            voted == {voteEvents[k].payloadJson.optionId :
                        k \in {k \in 1..Len(voteEvents) :
                                  /\ voteEvents[k].questionId = q
                                  /\ Has(voteEvents[k].payloadJson, "optionId")}}
        IN  BroadcastMultipleChoice(handler) =>
              /\ DOMAIN handler.tally.byOption = {ToString(i) : i \in voted}
              /\ \A i \in voted :
                    handler.tally.byOption[ToString(i)] = VotesForOption(voteEvents, q, i)

\* two options, one accepted vote, for option 0: byOption is {"0": 1}
C29_Witness ==
    /\ BroadcastMultipleChoice(audienceVote[1])
    /\ Len(questions["q1"].optionsJson) = 2
    /\ Len(voteEvents) = 1
    /\ voteEvents[1].payloadJson = [optionId |-> 0]
    /\ audienceVote[1].tally.total = 1
    /\ audienceVote[1].tally.byOption = [k \in {"0"} |-> 1]

----------------------------------------------------------------------------
(* A vote and a console action at the same time: the handlers of an         *)
(* audience:vote message and of a pollster:control message interleave at    *)
(* their awaits.                                                            *)

NextLifecycleRace ==
    \/ \E a \in {"go_live", "close", "freeze", "reset"} : PollsterControl(1, a, "q1")
    \/ PollsterControl(1, "go_live", "q2")
    \/ ControlGetQuestion(1)
    \/ ControlSwitch(1)
    \/ GoLiveListQuestions(1)
    \/ GoLiveLoop(1)
    \/ GoLiveCloseOther(1)
    \/ GoLiveUpdate(1)
    \/ GoLiveGetVoteTally(1)
    \/ GoLiveEmit(1)
    \/ CloseUpdate(1)
    \/ CloseEmit(1)
    \/ FreezeUpdate(1)
    \/ ResetDeleteVotes(1)
    \/ ResetUpdateQuestion(1)
    \/ ResetGetQuestion(1)
    \/ ControlBreak(1)
    \/ ResultsGetVoteTally(1)
    \/ ResultsEmit(1)
    \/ ControlReturn(1)
    \/ /\ voteEvents = <<>>
       /\ AudienceVote(1, "q1", ClientPayload(questions["q1"].type), "v1", "room")
    \/ VoteStep(1)
    \/ VoteReturn(1)

SpecLifecycleRace == Init /\ [][NextLifecycleRace]_vars

\* C30: a step that inserts a Vote Event inserts it for a question that is,
\* at that step, LIVE and not frozen.
C30_InsertOnlyWhileVotable ==
    [][ Len(voteEvents') > Len(voteEvents) =>
          LET q == voteEvents'[Len(voteEvents')].questionId
          IN  /\ q \in DOMAIN questions
              /\ questions[q].state = "LIVE"
              /\ ~questions[q].isFrozen
      ]_vars

\* a vote that passed the check while q1 was LIVE has been inserted after a
\* close of q1
C30_WitnessInsertedAfterClose ==
    /\ audienceVote[1].pc = "createdVoteEvent"
    /\ audienceVote[1].question[1].state = "LIVE"
    /\ questions["q1"].state = "CLOSED"
    /\ VotesOn(voteEvents, "q1") = VotesOn(audienceVote[1].before.voteEvents, "q1") + 1

\* the same after a freeze
C30_WitnessInsertedAfterFreeze ==
    /\ audienceVote[1].pc = "createdVoteEvent"
    /\ ~audienceVote[1].question[1].isFrozen
    /\ questions["q1"].state = "LIVE"
    /\ questions["q1"].isFrozen
    /\ VotesOn(voteEvents, "q1") = VotesOn(audienceVote[1].before.voteEvents, "q1") + 1

\* without a console action between the check and the insert of a vote
\* handler, the insert is for a question that is LIVE and not frozen
C30_InsertVotableWhenSequential ==
    [][ (Len(voteEvents') > Len(voteEvents)
          /\ \E h \in VoteHandlerIds :
                /\ audienceVote[h].pc = "createVoteEvent"
                /\ audienceVote'[h].pc = "createdVoteEvent"
                /\ audienceVote[h].question = getQuestion(questions,
                                                          audienceVote[h].data.questionId))
          => LET q == voteEvents'[Len(voteEvents')].questionId
             IN  questions[q].state = "LIVE" /\ ~questions[q].isFrozen
      ]_vars

----------------------------------------------------------------------------
(* The order of the session:results broadcasts of concurrent votes *)

\* handler h is between the receipt of its message and its end
InFlight(h) == audienceVote[h].pc \notin {"idle", "done", "threw"}

\* C31: when a vote handler emits session:results and no other vote handler
\* is in flight, so that this broadcast is the most recent one once all
\* handlers have finished, the tally it carries is the tally of the vote log
\* as it is.
C31_LastBroadcastCurrent ==
    [][ \A h \in VoteHandlerIds :
          ( /\ audienceVote[h].pc = "gotVoteTally"
            /\ audienceVote'[h].pc = "done"
            /\ \A other \in VoteHandlerIds \ {h} : ~InFlight(other) )
          => audienceVote[h].tally =
                getVoteTally(questions, voteEvents, audienceVote[h].data.questionId, now)
      ]_vars

\* all handlers have finished, handler 1 broadcast last, and its tally
\* counts one vote while the log and the broadcast of handler 2 have two
C31_WitnessStaleLast ==
    /\ \A h \in VoteHandlerIds : ~InFlight(h)
    /\ audienceVote[1].pc = "done"
    /\ audienceVote[2].pc = "done"
    /\ Sent(audienceVote[1], "session:results")
    /\ Sent(audienceVote[2], "session:results")
    /\ audienceVote[1].tally.total = 1
    /\ audienceVote[2].tally.total = 2
    /\ VotesOn(voteEvents, "q1") = 2

----------------------------------------------------------------------------
(* The question the audience is shown *)

\* the LIVE questions of a session
LiveOf(qtable, sessionId) ==
    {q \in DOMAIN qtable : qtable[q].sessionId = sessionId /\ qtable[q].state = "LIVE"}

\* the payload of the last session:current_question a handler has emitted
LastCurrentQuestion(handler) ==
    LET sent == SentCurrentQuestion(handler)
        last == CHOOSE i \in sent : \A j \in sent : j <= i
    IN  handler.emitted[last].payload

\* C32: at the step that completes a control handler which has broadcast
\* session:current_question, if the session has a LIVE question then the
\* last such broadcast carries that LIVE question: it is not null and not
\* another question.
C32_CurrentQuestionIsLive ==
    [][ \A c \in ControlHandlerIds :
          ( /\ pollsterControl[c].pc # "done"
            /\ pollsterControl'[c].pc = "done"
            /\ pollsterControl'[c].question # <<>>
            /\ SentCurrentQuestion(pollsterControl'[c]) # {} )
          => \A q \in LiveOf(questions', pollsterControl'[c].question[1].sessionId) :
                /\ LastCurrentQuestion(pollsterControl'[c]) # NullPayload
                /\ LastCurrentQuestion(pollsterControl'[c]).id = q
      ]_vars

\* a close of q2, which was not LIVE, has completed with a broadcast of
\* null while q1 is LIVE
C32_WitnessCloseOther ==
    /\ Completed(pollsterControl[1], "close")
    /\ pollsterControl[1].data.questionId = "q2"
    /\ pollsterControl[1].before.questions["q2"].state # "LIVE"
    /\ questions["q1"].state = "LIVE"
    /\ LastCurrentQuestion(pollsterControl[1]) = NullPayload

----------------------------------------------------------------------------
(* Draft questions and the vote log *)

\* C33: every question in state DRAFT has no Vote Event in the log.
C33_DraftHasNoVotes ==
    \A q \in DOMAIN questions :
        questions[q].state = "DRAFT" => VotesOn(voteEvents, q) = 0

----------------------------------------------------------------------------
(* The segments of the vote log *)

\* C34: every Vote Event of the log has segment 'room' or 'remote'.
C34_SegmentRoomOrRemote ==
    \A i \in 1..Len(voteEvents) : voteEvents[i].segment \in {"room", "remote"}

----------------------------------------------------------------------------
(* The connection that votes *)

\* the socket whose connection handler receives the audience:vote messages:
\* the handler is registered on every connection and reads none of
\* currentRoom, currentSessionId and the socket's rooms
VotingSocket == "a1"

\* C35: a vote is accepted (its Vote Event inserted) only when the connection
\* that sent it is in the room of the session that owns the question.
C35_VoteOnlyFromMember ==
    \A h \in VoteHandlerIds :
        VoteAccepted(h)
        => SessionRoom(audienceVote[h].question[1].sessionId)
              \in connections[VotingSocket].rooms

----------------------------------------------------------------------------
(* Two sessions with one question each; connection a1 votes, the console     *)
(* controls both questions and connection a2 joins sessions as audience, as  *)
(* overlay and as pollster and disconnects, one message at a time.           *)

NextRooms ==
    \/ \E a \in {"go_live", "close"}, q \in QuestionIds :
          Quiet /\ PollsterControl(1, a, q)
    \/ ControlGetQuestion(1)
    \/ ControlSwitch(1)
    \/ GoLiveListQuestions(1)
    \/ GoLiveLoop(1)
    \/ GoLiveUpdate(1)
    \/ GoLiveGetVoteTally(1)
    \/ GoLiveEmit(1)
    \/ CloseUpdate(1)
    \/ CloseEmit(1)
    \/ ResultsGetVoteTally(1)
    \/ ResultsEmit(1)
    \/ ControlReturn(1)
    \/ \E q \in QuestionIds :
          Quiet /\ AudienceVote(1, q, ClientPayload(questions[q].type), "v1", "room")
    \/ VoteStep(1)
    \/ VoteReturn(1)
    \/ \E code \in {"CODE1", "CODE2"} : Quiet /\ AudienceJoin("a2", code)
    \/ Quiet /\ OverlayJoin("a2", "CODE1")
    \/ JoinStep("a2")
    \/ Quiet /\ PollsterJoin("a2", "s2")
    \/ PollsterJoinStep("a2")
    \/ Quiet /\ Disconnect("a2")

SpecRooms == InitParallel /\ [][NextRooms]_vars

\* the connections an emitted event is delivered to: the socket of the
\* handler, or the sockets in the room
Recipients(event, submitter) ==
    IF event.to = ToSocket
    THEN {submitter}
    ELSE {s \in SocketIds : event.to \in connections[s].rooms}

\* the events a step appends to a handler's emitted events
NewlyEmitted(old, new) == {new[i] : i \in (Len(old) + 1)..Len(new)}

\* the connections that may receive the events about a question of a session
JoinedOrSubmitter(sessionId, submitter) ==
    {submitter} \cup {s \in SocketIds : sessionId \in connections[s].joined}

\* C36: every event that a vote handler or a control handler emits about a
\* question of session S is delivered only to the submitter and to
\* connections that have joined S.
C36_DeliveredOnlyToSession ==
    [][ /\ \A h \in VoteHandlerIds :
            \A e \in NewlyEmitted(audienceVote[h].emitted, audienceVote'[h].emitted) :
               IF audienceVote[h].question = <<>>
               THEN e.to = ToSocket
               ELSE Recipients(e, VotingSocket)
                      \subseteq JoinedOrSubmitter(audienceVote[h].question[1].sessionId,
                                                  VotingSocket)
        /\ \A c \in ControlHandlerIds :
            \A e \in NewlyEmitted(pollsterControl[c].emitted, pollsterControl'[c].emitted) :
               IF pollsterControl[c].question = <<>>
               THEN e.to = ToSocket
               ELSE Recipients(e, VotingSocket)
                      \subseteq JoinedOrSubmitter(pollsterControl[c].question[1].sessionId,
                                                  VotingSocket)
      ]_vars

\* the vote for the question of session s2 has been broadcast while a2,
\* which joined s1 only, is in the room of s1
C36_WitnessOtherSession ==
    /\ audienceVote[1].pc = "done"
    /\ Sent(audienceVote[1], "session:results")
    /\ audienceVote[1].question[1].sessionId = "s2"
    /\ connections["a2"].joined = {"s1"}
    /\ SessionRoom("s1") \in connections["a2"].rooms

\* a control action on the question of s2 has broadcast while a2 is in the
\* room of s2 as a pollster and in the room of s1
C36_WitnessControl ==
    /\ pollsterControl[1].pc = "done"
    /\ pollsterControl[1].emitted # <<>>
    /\ pollsterControl[1].question # <<>>
    /\ pollsterControl[1].question[1].sessionId = "s2"
    /\ connections["a2"].joined = {"s1", "s2"}
    /\ connections["a2"].isPollster

----------------------------------------------------------------------------
(* The order of what the submitter of a vote is sent *)

\* C37: a handler sends vote:confirmed only when the Vote Event of its voter
\* for its question is in the log and before it has broadcast
\* session:results; it broadcasts session:results only after vote:confirmed;
\* and no handler sends both vote:confirmed and an error.
C37_ConfirmedAfterInsertBeforeResults ==
    [][ \A h \in VoteHandlerIds :
          LET new == NewlyEmitted(audienceVote[h].emitted, audienceVote'[h].emitted)
          IN  /\ VoteConfirmed \in new
                 => /\ VotesBy(voteEvents, audienceVote[h].data.questionId,
                               audienceVote[h].data.voterToken) >= 1
                    /\ ~Sent(audienceVote[h], "session:results")
              /\ (\E e \in new : e.event = "session:results")
                 => Sent(audienceVote[h], "vote:confirmed")
              /\ ~( /\ Sent(audienceVote'[h], "vote:confirmed")
                    /\ Sent(audienceVote'[h], "error") )
      ]_vars

\* one submission was confirmed and then broadcast, and another submission
\* of the same voter was answered with an error and nothing else
C37_Witness ==
    /\ audienceVote[1].pc = "done"
    /\ Len(audienceVote[1].emitted) = 2
    /\ audienceVote[1].emitted[1] = VoteConfirmed
    /\ audienceVote[1].emitted[2].event = "session:results"
    /\ audienceVote[2].pc = "done"
    /\ audienceVote[2].emitted = <<AlreadyVoted>>
    /\ VotesOn(voteEvents, "q1") = 1

----------------------------------------------------------------------------
(* The timestamps of a question *)

\* C38: a LIVE question has openedAt set and closedAt null, a DRAFT question
\* has both null, and a CLOSED question has closedAt set.
C38_TimestampsFollowState ==
    \A q \in DOMAIN questions :
        /\ questions[q].state = "LIVE"
              => questions[q].openedAt # Null /\ questions[q].closedAt = Null
        /\ questions[q].state = "DRAFT"
              => questions[q].openedAt = Null /\ questions[q].closedAt = Null
        /\ questions[q].state = "CLOSED" => questions[q].closedAt # Null

\* go_live of q2 has closed the LIVE q1 on its way: q1 is CLOSED with
\* closedAt set and q2 is LIVE
C38_WitnessForcedClose ==
    /\ Completed(pollsterControl[1], "go_live")
    /\ pollsterControl[1].data.questionId = "q2"
    /\ pollsterControl[1].before.questions["q1"].state = "LIVE"
    /\ questions["q1"].state = "CLOSED"
    /\ questions["q1"].closedAt # Null
    /\ questions["q2"].state = "LIVE"

\* a reset of the CLOSED q1 has completed: q1 is DRAFT again
C38_WitnessReset ==
    /\ Completed(pollsterControl[1], "reset")
    /\ pollsterControl[1].data.questionId = "q1"
    /\ pollsterControl[1].before.questions["q1"].state = "CLOSED"
    /\ pollsterControl[1].before.questions["q1"].closedAt # Null
    /\ questions["q1"].state = "DRAFT"

----------------------------------------------------------------------------
(* Two sessions; connection a1 joins them as audience, as overlay and as     *)
(* pollster and disconnects at any moment, also while a join of its awaits   *)
(* storage.                                                                  *)

NextDisconnect ==
    \/ \E q \in QuestionIds : Quiet /\ PollsterControl(1, "go_live", q)
    \/ ControlGetQuestion(1)
    \/ ControlSwitch(1)
    \/ GoLiveListQuestions(1)
    \/ GoLiveLoop(1)
    \/ GoLiveUpdate(1)
    \/ GoLiveGetVoteTally(1)
    \/ GoLiveEmit(1)
    \/ ResultsGetVoteTally(1)
    \/ ResultsEmit(1)
    \/ ControlReturn(1)
    \/ \E code \in {"CODE1", "CODE2", "CODE9"} :
          ConsoleQuiet /\ AudienceJoin("a1", code)
    \/ ConsoleQuiet /\ OverlayJoin("a1", "CODE1")
    \/ JoinStep("a1")
    \/ \E sessionId \in {"s1", "s2"} : ConsoleQuiet /\ PollsterJoin("a1", sessionId)
    \/ PollsterJoinStep("a1")
    \/ ConsoleQuiet /\ Disconnect("a1")

SpecDisconnect == InitParallel /\ [][NextDisconnect]_vars

\* the socket id is in some set of the map
InRoomMap(map, socketId) == \E id \in DOMAIN map : socketId \in map[id]

\* no join handler of the socket is between its receipt and its end
JoinsFinished(s) ==
    /\ audienceJoin[s].pc \in {"idle", "done", "threw"}
    /\ pollsterJoin[s].pc \in {"idle", "done", "threw"}

\* C39: when a socket's disconnect handler has run and all its join handlers
\* have finished, its id is in no set of sessionRooms and of pollsterRooms.
C39_DisconnectedSocketInNoSet ==
    \A s \in SocketIds :
        (~connections[s].connected /\ JoinsFinished(s))
        => /\ ~InRoomMap(sessionRooms, s)
           /\ ~InRoomMap(pollsterRooms, s)

\* the socket joined s1 and then s2, one join after the other, and
\* disconnected with no join in flight: its id is still in the set of s1
C39_WitnessJoinedInTurn ==
    /\ ~connections["a1"].connected
    /\ audienceJoin["a1"].pc = "idle" /\ pollsterJoin["a1"].pc = "idle"
    /\ connections["a1"].currentSessionId = "s2"
    /\ "s1" \in DOMAIN sessionRooms /\ "a1" \in sessionRooms["s1"]
    /\ "s2" \in DOMAIN sessionRooms /\ "a1" \notin sessionRooms["s2"]

====
